---- MODULE Spec2Model ----
(***************************************************************************)
(* Device side of the virtio split virtqueue (crates/virtio-queue):        *)
(* Queue, AvailIter and DescriptorChain over a byte-addressed guest memory.*)
(***************************************************************************)
EXTENDS Integers, Sequences, FiniteSets, TLC

(* ------------------------------------------------------------------ *)
(* Program constants                                                   *)
(* ------------------------------------------------------------------ *)
VIRTQ_DESC_F_NEXT == 1
VIRTQ_DESC_F_WRITE == 2
VIRTQ_DESC_F_INDIRECT == 4
VIRTQ_USED_ELEMENT_SIZE == 8
VIRTQ_USED_RING_HEADER_SIZE == 4
VIRTQ_USED_F_NO_NOTIFY == 1
VIRTQ_AVAIL_ELEMENT_SIZE == 2
VIRTQ_AVAIL_RING_HEADER_SIZE == 4
VIRTQ_DESCRIPTOR_SIZE == 16

\* Width of Wrapping<u16>: every cursor and ring index is taken modulo 2^16.
U16 == 65536
U16_MAX == 65535

(* ------------------------------------------------------------------ *)
(* Bounds of the model                                                 *)
(* ------------------------------------------------------------------ *)
\* Bytes of guest memory: one region [0, MemSize).
MemSize == 96
\* Largest max_size a queue is constructed with.
MaxQueueSize == 2
\* Entries the driver publishes in one run.
MaxPublish == 2
\* add_used calls in one run.
MaxUsed == 2
\* Chains AvailIter::next yields in one run.
MaxYield == 3
MaxBack == 1

(* ------------------------------------------------------------------ *)
(* Guest memory (the vm_memory collaborator), little-endian            *)
(* ------------------------------------------------------------------ *)
Mapped == 0 .. (MemSize - 1)

\* address_in_range / bounds check of an n-byte access at guest address a
InRange(a, n) == \A i \in 0 .. (n - 1) : (a + i) \in Mapped

WrapAdd(a, b) == (a + b) % U16
WrapSub(a, b) == (a - b + U16) % U16

LeBytes2(v) == << v % 256, (v \div 256) % 256 >>
LeBytes4(v) == << v % 256, (v \div 256) % 256, (v \div 65536) % 256, (v \div 16777216) % 256 >>

\* Guest memory is the sequence of its bytes: the byte at guest address a is m[a + 1].
ByteAt(m, a) == m[a + 1]

\* the bytes bs stored at guest address a
WriteBytes(m, a, bs) ==
    [x \in DOMAIN m |-> IF x - 1 >= a /\ x - 1 < a + Len(bs) THEN bs[x - a] ELSE m[x]]

ReadU16(m, a) == ByteAt(m, a) + 256 * ByteAt(m, a + 1)
ReadU32(m, a) ==
    ByteAt(m, a) + 256 * ByteAt(m, a + 1) + 65536 * ByteAt(m, a + 2) + 16777216 * ByteAt(m, a + 3)
WriteU16(m, a, v) == WriteBytes(m, a, LeBytes2(v))

ZeroMem == [x \in 1 .. MemSize |-> 0]

VARIABLES
    mem,                \* guest memory: the bytes at guest addresses 0 .. MemSize-1
    max_size, size, ready, desc_table, avail_ring, used_ring,   \* Queue configuration
    next_avail, next_used, event_idx_enabled, signalled_used,   \* Queue cursors and event-idx state
    iter,               \* the AvailIter borrowed from the queue, if any
    ret,                \* what the last operation returned
    npub,               \* entries published by the driver so far
    nyield,             \* chains yielded by AvailIter::next so far
    nused,              \* add_used calls made so far
    snap,               \* cursor and published idx at the time of the last iter()
    chain,              \* a DescriptorChain
    cpc, depth,         \* position in DescriptorChain::next and the depth of its self-call
    ctr,                \* what the chain has done so far: descriptors yielded, expansions
    rwiter,             \* the DescriptorChainRwIter that took the chain, if any
    dev,                \* device inside add_used, between its memory accesses
    drv,                \* driver reading the used ring
    log,                \* the elements passed to the add_used calls that completed
    mark,               \* next_used at an earlier call of needs_notification, if one is kept
    last,               \* position and head of the chain AvailIter::next yielded last, if any
    nback,              \* go_to_previous_position calls made so far
    heads,              \* the head indices the driver published and those the iterators yielded
    pending,            \* a notification of the driver has not been taken by the device yet
    dpc                 \* position of the driver in making a buffer available

cfg == << max_size, size, ready, desc_table, avail_ring, used_ring >>
cursors == << next_avail, next_used, event_idx_enabled, signalled_used >>
chainv == << chain, cpc, depth, ctr, rwiter >>
concv == << dev, drv, log >>
histv == << mark, last, nback, heads >>
loopv == << pending, dpc >>
vars == << mem, max_size, size, ready, desc_table, avail_ring, used_ring,
           next_avail, next_used, event_idx_enabled, signalled_used, iter, ret, npub, nyield, nused, snap,
           chain, cpc, depth, ctr, rwiter, dev, drv, log, mark, last, nback, heads, pending, dpc >>

(* ------------------------------------------------------------------ *)
(* Queue: helpers                                                      *)
(* ------------------------------------------------------------------ *)
Min(a, b) == IF a <= b THEN a ELSE b

IsPow2(n) == n \in {1, 2, 4, 8, 16, 32, 64, 128, 256, 512, 1024, 2048, 4096, 8192, 16384, 32768}

\* Queue::actual_size
actual_size == Min(size, max_size)

None == << >>
Some(v) == << v >>

\* What an operation returned: ok/err for Ok/Err (or Some/None), val for the value
\* returned or the first argument, arg for a second argument or a value replaced.
RetArg(op, ok, val, arg, err) == [op |-> op, ok |-> ok, val |-> val, arg |-> arg, err |-> err]
Ret(op, ok, val, err) == RetArg(op, ok, val, 0, err)

NoSnap == [start |-> 0, published |-> 0]

NoIter == [alive |-> FALSE, last_index |-> 0, queue_size |-> 0, desc_table |-> 0, avail_ring |-> 0]

\* Guest address Queue::avail_idx loads from.
AvailIdxAddr == used_ring + 2

\* Queue::avail_idx: Ok(idx) or Err(GuestMemory)
AvailIdxOk == InRange(AvailIdxAddr, 2)
AvailIdxVal == ReadU16(mem, AvailIdxAddr)

\* Guest address of available-ring slot for cursor value c (AvailIter::next)
AvailSlotAddr(ring, qsize, c) ==
    ring + VIRTQ_AVAIL_RING_HEADER_SIZE + (c % qsize) * VIRTQ_AVAIL_ELEMENT_SIZE

\* wrong variant: the slot is not reduced modulo the queue size
UsedSlotAddrNoModulo == used_ring + 4 + next_used * 8

\* Guest address of the used-ring slot add_used writes
UsedSlotAddr == used_ring + 4 + (next_used % actual_size) * 8

\* wrong variant: next_used is stored into the flags field
UsedIdxAddrFlags == used_ring

\* Guest address of the used ring's idx field
UsedIdxAddr == used_ring + 2

\* VirtqUsedElem::new(id, len) as the 8 bytes write_obj stores
UsedElemBytes(head_index, len) == LeBytes4(head_index) \o LeBytes4(len)

\* used_event(): the offset is computed in u16 before the cast to u64
UsedEventOffset == (4 + actual_size * 2) % U16

\* wrong variant: the header of the available ring is not skipped
UsedEventAddrNoHeader == avail_ring + actual_size * 2

UsedEventAddr == avail_ring + UsedEventOffset

\* no DescriptorChain has been created
NoChain == [desc_table |-> 0, queue_size |-> 0, head_index |-> 0, next_index |-> 0,
            ttl |-> 0, is_indirect |-> FALSE]
ZeroCtr == [yielded |-> 0, direct |-> 0, expanded |-> 0]
\* no readable() or writable() adapter holds the chain
NoRwIter == [active |-> FALSE, writable |-> FALSE, from |-> NoChain, out |-> << >>]
NoChainYet ==
    chain = NoChain /\ cpc = "idle" /\ depth = 0 /\ ctr = ZeroCtr /\ rwiter = NoRwIter

\* the device is not inside add_used and the driver is not reading the used ring
IdleDev == [pc |-> "idle", addr |-> 0, head |-> 0, len |-> 0, done |-> {}]
IdleDrv == [pc |-> "idle", k |-> 0, start |-> 0, consumed |-> 0, id |-> 0, len |-> 0]
NoAddUsedInProgress == dev = IdleDev /\ drv = IdleDrv /\ log = << >>

\* nothing has been recorded of earlier calls, and no processing loop is running
NoHeads == [published |-> << >>, yielded |-> << >>]
NoHistory == mark = << >> /\ last = << >> /\ nback = 0 /\ heads = NoHeads
NoLoop == pending = FALSE /\ dpc = "idle"

(* ------------------------------------------------------------------ *)
(* Queue::avail_idx, Queue::iter, AvailIter::next                      *)
(* ------------------------------------------------------------------ *)
\* pub fn avail_idx(&self, order) -> Result<Wrapping<u16>, Error>
AvailIdx ==
    /\ ~iter.alive
    /\ ret' = IF AvailIdxOk THEN Ret("avail_idx", TRUE, AvailIdxVal, "")
                            ELSE Ret("avail_idx", FALSE, 0, "GuestMemory")
    /\ UNCHANGED << mem, cfg, cursors, iter, npub, nyield, nused, snap >>
    /\ UNCHANGED << chainv, concv >>
    /\ UNCHANGED << histv, loopv >>

\* the idx field of the available ring as the driver last published it
PublishedIdx == IF InRange(avail_ring + 2, 2) THEN ReadU16(mem, avail_ring + 2) ELSE 0

\* the AvailIter that Queue::iter builds from the loaded idx
NewAvailIter(idx) ==
    [alive |-> TRUE, last_index |-> idx, queue_size |-> actual_size,
     desc_table |-> desc_table, avail_ring |-> avail_ring]

\* pub fn iter(&mut self) -> Result<AvailIter<'_, M>, Error>
Iter ==
    /\ ~iter.alive
    /\ IF AvailIdxOk
       THEN /\ iter' = NewAvailIter(AvailIdxVal)
            /\ ret' = Ret("iter", TRUE, AvailIdxVal, "")
       ELSE /\ iter' = iter
            /\ ret' = Ret("iter", FALSE, 0, "GuestMemory")
    /\ snap' = IF AvailIdxOk THEN [start |-> next_avail, published |-> PublishedIdx] ELSE snap
    /\ UNCHANGED << mem, cfg, cursors, npub, nyield, nused >>
    /\ UNCHANGED << chainv, concv >>
    /\ UNCHANGED << histv, loopv >>

\* *self.next_avail == self.last_index
IterAtEnd == next_avail = iter.last_index

\* wrong variant: the cursor is incremented without wrapping
NextAvailAdvancedNoWrap == next_avail + 1

\* *self.next_avail += Wrapping(1)
NextAvailAdvanced == WrapAdd(next_avail, 1)

\* guest address AvailIter::next reads the head index from
IterSlotAddr == AvailSlotAddr(iter.avail_ring, iter.queue_size, next_avail)

\* the remainder by queue_size in AvailIter::next has a zero divisor: the thread panics
RemainderByZero == iter.queue_size = 0

\* fn next(&mut self) -> Option<DescriptorChain<M>>; the chain returned is
\* DescriptorChain::new(mem, desc_table, queue_size, head_index), recorded by its head.
AvailIterNext ==
    /\ iter.alive
    /\ IterAtEnd \/ nyield < MaxYield
    /\ IF IterAtEnd
       THEN /\ ret' = Ret("next", FALSE, 0, "")
            /\ UNCHANGED << next_avail, nyield >>
       ELSE IF RemainderByZero
       THEN /\ ret' = Ret("next", FALSE, 0, "panic")
            /\ UNCHANGED << next_avail, nyield >>
       ELSE IF ~InRange(IterSlotAddr, 2)
       THEN /\ ret' = Ret("next", FALSE, 0, "GuestMemory")
            /\ UNCHANGED << next_avail, nyield >>
       ELSE /\ ret' = Ret("next", TRUE, ReadU16(mem, IterSlotAddr), "")
            /\ next_avail' = NextAvailAdvanced
            /\ nyield' = nyield + 1
    /\ UNCHANGED << mem, cfg, next_used, event_idx_enabled, signalled_used, iter, npub, nused, snap >>
    /\ UNCHANGED << chainv, concv >>
    /\ last' = IF ~IterAtEnd /\ ~RemainderByZero /\ InRange(IterSlotAddr, 2)
               THEN Some([pos |-> next_avail, head |-> ReadU16(mem, IterSlotAddr)])
               ELSE last
    /\ heads' = IF ~IterAtEnd /\ ~RemainderByZero /\ InRange(IterSlotAddr, 2)
                THEN [heads EXCEPT !.yielded = Append(@, ReadU16(mem, IterSlotAddr))]
                ELSE heads
    /\ UNCHANGED << mark, nback, loopv >>

\* the iterator goes out of scope, ending the borrow of the queue
IterDrop ==
    /\ iter.alive
    /\ iter' = NoIter
    /\ ret' = Ret("drop", TRUE, 0, "")
    /\ snap' = NoSnap
    /\ UNCHANGED << mem, cfg, cursors, npub, nyield, nused >>
    /\ UNCHANGED << chainv, concv >>
    /\ UNCHANGED << histv, loopv >>

(* ------------------------------------------------------------------ *)
(* Queue::add_used                                                     *)
(* ------------------------------------------------------------------ *)
\* wrong variant: the bound check is off by one
HeadOutOfBoundsOffByOne(head_index) == head_index > actual_size

\* head_index >= self.actual_size()
HeadOutOfBounds(head_index) == head_index >= actual_size

\* self.next_used += Wrapping(1)
NextUsedAdvanced == WrapAdd(next_used, 1)

\* pub fn add_used(&mut self, head_index: u16, len: u32) -> Result<(), Error>
AddUsedCall(head_index, len) ==
    IF HeadOutOfBounds(head_index)
    THEN /\ ret' = RetArg("add_used", FALSE, head_index, len, "InvalidDescriptorIndex")
         /\ UNCHANGED << mem, next_used >>
    ELSE IF ~InRange(UsedSlotAddr, 8)
    THEN /\ ret' = RetArg("add_used", FALSE, head_index, len, "GuestMemory")
         /\ UNCHANGED << mem, next_used >>
    ELSE LET m1 == WriteBytes(mem, UsedSlotAddr, UsedElemBytes(head_index, len))
         IN  /\ next_used' = NextUsedAdvanced
             /\ IF InRange(UsedIdxAddr, 2)
                THEN /\ mem' = WriteU16(m1, UsedIdxAddr, NextUsedAdvanced)
                     /\ ret' = RetArg("add_used", TRUE, head_index, len, "")
                ELSE /\ mem' = m1
                     /\ ret' = RetArg("add_used", FALSE, head_index, len, "GuestMemory")

\* head indices and lengths the device passes to add_used
Heads == 0 .. MaxQueueSize
Lens == {1, 4096}

AddUsed ==
    /\ ~iter.alive
    /\ nused < MaxUsed
    /\ \E head_index \in Heads, len \in Lens : AddUsedCall(head_index, len)
    /\ nused' = nused + 1
    /\ UNCHANGED << cfg, next_avail, event_idx_enabled, signalled_used, iter, npub, nyield, snap >>
    /\ UNCHANGED << chainv, concv >>
    /\ UNCHANGED << histv, loopv >>

(* ------------------------------------------------------------------ *)
(* The driver (guest)                                                  *)
(* ------------------------------------------------------------------ *)
\* The driver makes one more chain head available: it writes the ring slot of its
\* idx, then increments idx (available ring at avail_ring, idx at avail_ring + 2).
DriverPublish ==
    /\ npub < MaxPublish
    /\ InRange(avail_ring + 2, 2)
    /\ \E head \in 0 .. size :
         LET idx == ReadU16(mem, avail_ring + 2)
             slot == AvailSlotAddr(avail_ring, size, idx)
             m1 == IF InRange(slot, 2) THEN WriteU16(mem, slot, head) ELSE mem
         IN  /\ mem' = WriteU16(m1, avail_ring + 2, WrapAdd(idx, 1))
             /\ heads' = [heads EXCEPT !.published = Append(@, head)]
    /\ npub' = npub + 1
    /\ ret' = Ret("driver", TRUE, 0, "")
    /\ UNCHANGED << cfg, cursors, iter, nyield, nused, snap >>
    /\ UNCHANGED << chainv, concv >>
    /\ UNCHANGED << mark, last, nback, loopv >>

(* ------------------------------------------------------------------ *)
(* Specification of the queue with its available-ring iterator         *)
(* ------------------------------------------------------------------ *)
\* ring placements: inside memory; available-ring slots past the end of memory;
\* second used-ring slot past the end of memory; used ring unmapped
Layouts ==
    { [d |-> 0, a |-> 32, u |-> 44],
      [d |-> 0, a |-> 92, u |-> 44],
      [d |-> 0, a |-> 32, u |-> 84],
      [d |-> 0, a |-> 32, u |-> 96] }

\* cursor values a running queue starts the run with
StartIdx == {0, U16 - 2}

QueueSizes == {s \in 1 .. MaxQueueSize : IsPow2(s)}

StoreIfMapped(m, a, v) == IF InRange(a, 2) THEN WriteU16(m, a, v) ELSE m

Init ==
    /\ max_size = MaxQueueSize
    /\ size \in QueueSizes
    /\ ready = TRUE
    /\ \E l \in Layouts : desc_table = l.d /\ avail_ring = l.a /\ used_ring = l.u
    /\ next_avail \in StartIdx
    /\ next_used = 0
    /\ event_idx_enabled = FALSE
    /\ signalled_used = None
    /\ mem = StoreIfMapped(ZeroMem, avail_ring + 2, next_avail)
    /\ iter = NoIter
    /\ ret = Ret("new", TRUE, 0, "")
    /\ npub = 0
    /\ nyield = 0
    /\ nused = 0
    /\ snap = NoSnap
    /\ NoChainYet
    /\ NoAddUsedInProgress
    /\ NoHistory
    /\ NoLoop

Next ==
    \/ DriverPublish
    \/ AvailIdx
    \/ Iter
    \/ AvailIterNext
    \/ IterDrop
    \/ AddUsed

Spec == Init /\ [][Next]_vars

(* ------------------------------------------------------------------ *)
(* Queue::needs_notification, Queue::set_event_idx                     *)
(* ------------------------------------------------------------------ *)
BoolVal(b) == IF b THEN 1 ELSE 0

\* wrong variant: the differences are taken in a wider type, without wrapping
NotificationSuppressedWide(used_idx, used_event, old_idx) ==
    (used_idx - used_event - 1) >= (used_idx - old_idx)

\* wrong variant: the comparison is strict
NotificationSuppressedStrict(used_idx, used_event, old_idx) ==
    WrapSub(WrapSub(used_idx, used_event), 1) > WrapSub(used_idx, old_idx)

\* (used_idx - used_event - Wrapping(1u16)) >= (used_idx - old_idx), over Wrapping<u16>
NotificationSuppressed(used_idx, used_event, old_idx) ==
    WrapSub(WrapSub(used_idx, used_event), 1) >= WrapSub(used_idx, old_idx)

\* wrong variant: the event-idx test is made whatever the feature bit
EventIdxBranchAlways == TRUE

\* if self.event_idx_enabled
EventIdxBranch == event_idx_enabled

\* 4 + self.actual_size() * 2 leaves the range of u16: a build with overflow checks
\* panics there, a build without them wraps
UsedEventOffsetOverflows == 4 + actual_size * 2 > U16_MAX

\* pub fn needs_notification(&mut self) -> Result<bool, Error>
NeedsNotificationCall ==
    LET used_idx == next_used
        Result(ok, val, err) ==
            RetArg("needs_notification", ok, val,
                   IF signalled_used = None THEN -1 ELSE signalled_used[1], err)
    IN  IF EventIdxBranch
        THEN /\ signalled_used' = Some(used_idx)
             /\ IF signalled_used = None
                THEN ret' = Result(TRUE, BoolVal(TRUE), "")
                ELSE \E build \in (IF UsedEventOffsetOverflows THEN {"checked", "wrapping"}
                                                               ELSE {"wrapping"}) :
                       IF build = "checked"
                       THEN ret' = Result(FALSE, 0, "panic")
                       ELSE IF ~InRange(UsedEventAddr, 2)
                       THEN ret' = Result(FALSE, 0, "GuestMemory")
                       ELSE ret' = Result(TRUE,
                                       BoolVal(~NotificationSuppressed(used_idx,
                                                   ReadU16(mem, UsedEventAddr), signalled_used[1])),
                                       "")
        ELSE /\ ret' = Result(TRUE, BoolVal(TRUE), "")
             /\ UNCHANGED signalled_used

NeedsNotification ==
    /\ ~iter.alive
    /\ NeedsNotificationCall
    /\ UNCHANGED << mem, cfg, next_avail, next_used, event_idx_enabled, iter, npub, nyield, nused, snap >>
    /\ UNCHANGED << chainv, concv >>
    /\ mark' \in (IF EventIdxBranch THEN {mark, Some(next_used)} ELSE {mark})
    /\ UNCHANGED << last, nback, heads, loopv >>

\* wrong variant: set_event_idx keeps the index signalled last
SignalledUsedKept == signalled_used

\* self.signalled_used = None
SignalledUsedCleared == None

\* pub fn set_event_idx(&mut self, enabled: bool)
SetEventIdx ==
    /\ ~iter.alive
    /\ \E enabled \in BOOLEAN :
         /\ event_idx_enabled' = enabled
         /\ ret' = Ret("set_event_idx", TRUE, BoolVal(enabled), "")
    /\ signalled_used' = SignalledUsedCleared
    /\ UNCHANGED << mem, cfg, next_avail, next_used, iter, npub, nyield, nused, snap >>
    /\ UNCHANGED << chainv, concv >>
    /\ mark' = None
    /\ UNCHANGED << last, nback, heads, loopv >>

\* values the driver stores into the available ring's used_event field
EventVals == {0, 1, U16 - 2, U16_MAX}

\* The driver sets used_event (at avail_ring + 4 + 2 * size) to ask for a notification
\* once the device's used idx passes it.
DriverSetUsedEvent ==
    /\ InRange(avail_ring + 4 + 2 * size, 2)
    /\ \E e \in EventVals : mem' = WriteU16(mem, avail_ring + 4 + 2 * size, e)
    /\ ret' = Ret("driver", TRUE, 0, "")
    /\ UNCHANGED << cfg, cursors, iter, npub, nyield, nused, snap >>
    /\ UNCHANGED << chainv, concv >>
    /\ mark' = None
    /\ UNCHANGED << last, nback, heads, loopv >>

(* ------------------------------------------------------------------ *)
(* Specification of the used ring and of the notification decision     *)
(* ------------------------------------------------------------------ *)
InitUsed ==
    /\ max_size = MaxQueueSize
    /\ size \in QueueSizes
    /\ ready = TRUE
    /\ \E l \in Layouts : desc_table = l.d /\ avail_ring = l.a /\ used_ring = l.u
    /\ next_avail = 0
    /\ next_used \in StartIdx
    /\ event_idx_enabled = FALSE
    /\ signalled_used = None
    /\ mem = StoreIfMapped(ZeroMem, used_ring + 2, next_used)
    /\ iter = NoIter
    /\ ret = Ret("new", TRUE, 0, "")
    /\ npub = 0
    /\ nyield = 0
    /\ nused = 0
    /\ snap = NoSnap
    /\ NoChainYet
    /\ NoAddUsedInProgress
    /\ NoHistory
    /\ NoLoop

NextUsed ==
    \/ AddUsed
    \/ NeedsNotification
    \/ SetEventIdx
    \/ DriverSetUsedEvent

SpecUsed == InitUsed /\ [][NextUsed]_vars

(* ------------------------------------------------------------------ *)
(* Queue::set_notification, enable_notification, disable_notification  *)
(* ------------------------------------------------------------------ *)
\* (4 + self.actual_size() * 8) as u64, computed in u16: a build with overflow checks
\* panics when it leaves the range of u16, a build without them wraps
AvailEventOffsetOverflows == 4 + actual_size * 8 > U16_MAX
AvailEventOffset == (4 + actual_size * 8) % U16

\* guest address set_avail_event stores to
AvailEventAddr == used_ring + AvailEventOffset

\* wrong variant: the idx published by the driver is stored into avail_event
AvailEventValueLive == PublishedIdx

\* self.set_avail_event(self.next_avail.0, Ordering::Relaxed)
AvailEventValue == next_avail

\* wrong variant: the flag is written with event-idx enabled as well
NotificationStoreAnyMode(enable) ==
    IF enable
    THEN IF event_idx_enabled THEN {[addr |-> AvailEventAddr, val |-> AvailEventValue]}
                              ELSE {[addr |-> used_ring, val |-> 0]}
    ELSE {[addr |-> used_ring, val |-> VIRTQ_USED_F_NO_NOTIFY]}

\* the store set_notification(enable) makes, if it makes one
NotificationStore(enable) ==
    IF enable
    THEN IF event_idx_enabled THEN {[addr |-> AvailEventAddr, val |-> AvailEventValue]}
                              ELSE {[addr |-> used_ring, val |-> 0]}
    ELSE IF ~event_idx_enabled THEN {[addr |-> used_ring, val |-> VIRTQ_USED_F_NO_NOTIFY]}
                               ELSE {}

\* set_notification(enable) returns Err(GuestMemory)
SetNotificationFails(enable) == \E st \in NotificationStore(enable) : ~InRange(st.addr, 2)

\* guest memory m after set_notification(enable)
SetNotificationMem(m, enable) ==
    IF NotificationStore(enable) = {} \/ SetNotificationFails(enable)
    THEN m
    ELSE LET st == CHOOSE st \in NotificationStore(enable) : TRUE
         IN  WriteU16(m, st.addr, st.val)

\* the builds that differ on this call: with and without overflow checks
Builds(overflows) == IF overflows THEN {"checked", "wrapping"} ELSE {"wrapping"}

\* pub fn enable_notification(&mut self) -> Result<bool, Error>
EnableNotificationCall ==
    \E build \in Builds(AvailEventOffsetOverflows /\ event_idx_enabled) :
      IF build = "checked"
      THEN /\ ret' = Ret("enable_notification", FALSE, 0, "panic")
           /\ mem' = mem
      ELSE IF SetNotificationFails(TRUE)
      THEN /\ ret' = Ret("enable_notification", FALSE, 0, "GuestMemory")
           /\ mem' = mem
      ELSE /\ mem' = SetNotificationMem(mem, TRUE)
           /\ ret' = IF AvailIdxOk
                     THEN Ret("enable_notification", TRUE,
                              BoolVal(ReadU16(mem', AvailIdxAddr) /= next_avail), "")
                     ELSE Ret("enable_notification", FALSE, 0, "GuestMemory")

EnableNotification ==
    /\ ~iter.alive
    /\ EnableNotificationCall
    /\ UNCHANGED << cfg, cursors, iter, npub, nyield, nused, snap >>
    /\ UNCHANGED << chainv, concv, histv, loopv >>

\* pub fn disable_notification(&mut self) -> Result<(), Error>
DisableNotificationCall ==
    /\ mem' = SetNotificationMem(mem, FALSE)
    /\ ret' = IF SetNotificationFails(FALSE)
              THEN Ret("disable_notification", FALSE, 0, "GuestMemory")
              ELSE Ret("disable_notification", TRUE, 0, "")

DisableNotification ==
    /\ ~iter.alive
    /\ DisableNotificationCall
    /\ UNCHANGED << cfg, cursors, iter, npub, nyield, nused, snap >>
    /\ UNCHANGED << chainv, concv, histv, loopv >>

(* ------------------------------------------------------------------ *)
(* Specification of notification enabling beside a publishing driver   *)
(* ------------------------------------------------------------------ *)
NextNotify ==
    \/ DriverPublish
    \/ AddUsed
    \/ SetEventIdx
    \/ EnableNotification
    \/ DisableNotification

SpecNotify == Init /\ [][NextNotify]_vars

\* the field of the used ring that follows its `size` elements
AvailEventField == used_ring + 4 + 8 * size

(* ------------------------------------------------------------------ *)
(* Specification of the device's processing loop beside the driver     *)
(* ------------------------------------------------------------------ *)
\* The loop of the comment on enable_notification:
\*   loop { disable_notification()?; for chain in iter()? { .. }
\*          if !enable_notification()? { break; } }
\* after which the device waits for a notification and runs the loop again. The place
\* of the device in the loop is told by what its last call returned.
AtLoopStart ==
    \/ ret.op \in {"new", "wake"}
    \/ ret.op = "enable_notification" /\ ret.ok /\ ret.val = 1

\* enable_notification() returned false: the device waits to be notified
Waiting == ret.op = "enable_notification" /\ ret.ok /\ ret.val = 0

LoopDisable == AtLoopStart /\ DisableNotification

LoopIter == ret.op = "disable_notification" /\ ret.ok /\ Iter

LoopNext == (ret.op = "iter" \/ (ret.op = "next" /\ ret.ok)) /\ AvailIterNext

LoopDrop == ret.op = "next" /\ ~ret.ok /\ IterDrop

LoopEnable == ret.op = "drop" /\ EnableNotification

\* the wait ends when the driver has notified
LoopWake ==
    /\ Waiting
    /\ pending
    /\ pending' = FALSE
    /\ ret' = Ret("wake", TRUE, 0, "")
    /\ UNCHANGED << mem, cfg, cursors, iter, npub, nyield, nused, snap, chainv, concv, histv, dpc >>

\* The driver makes a buffer available when the ring has room: it writes the ring slot,
LoopDriverWrite ==
    /\ dpc = "idle"
    /\ npub < MaxPublish
    /\ WrapSub(PublishedIdx, next_avail) < size
    /\ \E head \in 0 .. (size - 1) :
         mem' = WriteU16(mem, AvailSlotAddr(avail_ring, size, PublishedIdx), head)
    /\ dpc' = "wrote"
    /\ UNCHANGED << cfg, cursors, iter, ret, npub, nyield, nused, snap, chainv, concv, histv, pending >>

\* then increments avail.idx,
LoopDriverPublish ==
    /\ dpc = "wrote"
    /\ mem' = WriteU16(mem, avail_ring + 2, WrapAdd(PublishedIdx, 1))
    /\ npub' = npub + 1
    /\ dpc' = "published"
    /\ heads' = [heads EXCEPT !.published =
                    Append(@, ReadU16(mem, AvailSlotAddr(avail_ring, size, PublishedIdx)))]
    /\ UNCHANGED << cfg, cursors, iter, ret, nyield, nused, snap, chainv, concv, pending >>
    /\ UNCHANGED << mark, last, nback >>

\* the driver is told not to notify: by NO_NOTIFY in used.flags, or under event-idx by
\* an avail_event other than the idx of the entry it has just published
DriverSuppressed ==
    IF event_idx_enabled
    THEN ReadU16(mem, AvailEventField) /= WrapSub(PublishedIdx, 1)
    ELSE ReadU16(mem, used_ring) % 2 = VIRTQ_USED_F_NO_NOTIFY

\* and then notifies the device unless it is told not to.
LoopDriverNotify ==
    /\ dpc = "published"
    /\ pending' = (pending \/ ~DriverSuppressed)
    /\ dpc' = "idle"
    /\ UNCHANGED << mem, cfg, cursors, iter, ret, npub, nyield, nused, snap, chainv, concv, histv >>

InitLoop ==
    /\ max_size = MaxQueueSize
    /\ size \in QueueSizes
    /\ ready = TRUE
    /\ desc_table = 0 /\ avail_ring = 32 /\ used_ring = 44
    /\ next_avail \in StartIdx
    /\ next_used = 0
    /\ event_idx_enabled \in BOOLEAN
    /\ signalled_used = None
    /\ mem = WriteU16(ZeroMem, avail_ring + 2, next_avail)
    /\ iter = NoIter
    /\ ret = Ret("new", TRUE, 0, "")
    /\ npub = 0
    /\ nyield = 0
    /\ nused = 0
    /\ snap = NoSnap
    /\ NoChainYet
    /\ NoAddUsedInProgress
    /\ NoHistory
    /\ NoLoop

NextLoop ==
    \/ LoopDisable
    \/ LoopIter
    \/ LoopNext
    \/ LoopDrop
    \/ LoopEnable
    \/ LoopWake
    \/ LoopDriverWrite
    \/ LoopDriverPublish
    \/ LoopDriverNotify

SpecLoop == InitLoop /\ [][NextLoop]_vars

(* ------------------------------------------------------------------ *)
(* Queue::new, Queue::reset                                            *)
(* ------------------------------------------------------------------ *)
\* the fields of the Queue (all but the handle of guest memory)
QueueFields ==
    [max_size |-> max_size, size |-> size, ready |-> ready,
     desc_table |-> desc_table, avail_ring |-> avail_ring, used_ring |-> used_ring,
     next_avail |-> next_avail, next_used |-> next_used,
     event_idx_enabled |-> event_idx_enabled, signalled_used |-> signalled_used]

\* pub fn new(mem: M, max_size: u16) -> Queue<M>
NewQueue(ms) ==
    [max_size |-> ms, size |-> ms, ready |-> FALSE,
     desc_table |-> 0, avail_ring |-> 0, used_ring |-> 0,
     next_avail |-> 0, next_used |-> 0,
     event_idx_enabled |-> FALSE, signalled_used |-> None]

\* wrong variant: the event-idx state survives the reset
ResetKeepingEventIdx(q) ==
    [q EXCEPT !.ready = FALSE, !.size = q.max_size,
              !.desc_table = 0, !.avail_ring = 0, !.used_ring = 0,
              !.next_avail = 0, !.next_used = 0]

\* pub fn reset(&mut self), on the fields q
ResetOf(q) ==
    [q EXCEPT !.ready = FALSE, !.size = q.max_size,
              !.desc_table = 0, !.avail_ring = 0, !.used_ring = 0,
              !.next_avail = 0, !.next_used = 0,
              !.signalled_used = None, !.event_idx_enabled = FALSE]

\* wrong variant: reset clears the idx field of the used ring in guest memory
GuestMemoryWithIdxCleared(m) == StoreIfMapped(m, used_ring + 2, 0)

\* guest memory after reset(), which makes no access to it
GuestMemoryAfterReset(m) == m

Reset ==
    /\ ~iter.alive
    /\ LET q == ResetOf(QueueFields)
       IN  /\ max_size' = q.max_size
           /\ size' = q.size
           /\ ready' = q.ready
           /\ desc_table' = q.desc_table
           /\ avail_ring' = q.avail_ring
           /\ used_ring' = q.used_ring
           /\ next_avail' = q.next_avail
           /\ next_used' = q.next_used
           /\ event_idx_enabled' = q.event_idx_enabled
           /\ signalled_used' = q.signalled_used
    /\ ret' = Ret("reset", TRUE, 0, "")
    /\ mem' = GuestMemoryAfterReset(mem)
    /\ mark' = None
    /\ UNCHANGED << iter, npub, nyield, nused, snap >>
    /\ UNCHANGED << chainv, concv, last, nback, heads, loopv >>

(* ------------------------------------------------------------------ *)
(* Specification of a queue that is used and reset                     *)
(* ------------------------------------------------------------------ *)
NextReset ==
    \/ AddUsed
    \/ NeedsNotification
    \/ SetEventIdx
    \/ Reset

SpecReset == Init /\ [][NextReset]_vars

(* ------------------------------------------------------------------ *)
(* Queue::is_valid                                                     *)
(* ------------------------------------------------------------------ *)
\* VIRTQ_AVAIL_RING_META_SIZE, VIRTQ_USED_RING_META_SIZE: header + the event field (u16)
VIRTQ_AVAIL_RING_META_SIZE == VIRTQ_AVAIL_RING_HEADER_SIZE + 2
VIRTQ_USED_RING_META_SIZE == VIRTQ_USED_RING_HEADER_SIZE + 2

\* desc_table_size, avail_ring_size, used_ring_size for queue_size = actual_size()
desc_table_size == VIRTQ_DESCRIPTOR_SIZE * actual_size
avail_ring_size == VIRTQ_AVAIL_RING_META_SIZE + VIRTQ_AVAIL_ELEMENT_SIZE * actual_size
used_ring_size == VIRTQ_USED_RING_META_SIZE + VIRTQ_USED_ELEMENT_SIZE * actual_size

\* mem.address_in_range(v)
address_in_range(v) == v \in Mapped

\* base.checked_add(ring_size).map_or(true, |v| !mem.address_in_range(v)); the
\* addresses of the model are far from the end of u64, where checked_add gives None
GoesOutOfBounds(base, ring_size) == ~address_in_range(base + ring_size)

\* self.size > self.max_size || self.size == 0 || (self.size & (self.size - 1)) != 0
InvalidSize == size > max_size \/ size = 0 \/ ~IsPow2(size)

\* pub fn is_valid(&self) -> bool
IsValidResult ==
    IF ~ready THEN FALSE
    ELSE IF InvalidSize THEN FALSE
    ELSE IF GoesOutOfBounds(desc_table, desc_table_size) THEN FALSE
    ELSE IF GoesOutOfBounds(avail_ring, avail_ring_size) THEN FALSE
    ELSE IF GoesOutOfBounds(used_ring, used_ring_size) THEN FALSE
    ELSE IF desc_table % 16 /= 0 THEN FALSE
    ELSE IF avail_ring % 2 /= 0 THEN FALSE
    ELSE IF used_ring % 4 /= 0 THEN FALSE
    ELSE TRUE

IsValid ==
    /\ ~iter.alive
    /\ ret' = Ret("is_valid", TRUE, BoolVal(IsValidResult), "")
    /\ UNCHANGED << mem, cfg, cursors, iter, npub, nyield, nused, snap >>
    /\ UNCHANGED << chainv, concv, histv, loopv >>

(* ------------------------------------------------------------------ *)
(* Specification of is_valid over queue configurations                 *)
(* ------------------------------------------------------------------ *)
\* sizes a device may have been given: 0, legal ones, not a power of two, above max_size
ConfigSizes == 0 .. (MaxQueueSize + 2)

\* ring addresses: well inside guest memory, misaligned, such that the ring ends at
\* the end of guest memory (for size 2 and for size 1), and such that it ends beyond
DescTables == {0, 8, MemSize - 32, MemSize - 16}
AvailRings == {32, 33, MemSize - 10, MemSize - 8, MemSize - 6}
UsedRings == {44, 46, MemSize - 24, MemSize - 20, MemSize - 16}

InitValid ==
    /\ max_size = MaxQueueSize
    /\ size \in ConfigSizes
    /\ ready \in BOOLEAN
    /\ desc_table \in DescTables
    /\ avail_ring \in AvailRings
    /\ used_ring \in UsedRings
    /\ next_avail = 0
    /\ next_used = 0
    /\ event_idx_enabled = FALSE
    /\ signalled_used = None
    /\ mem = ZeroMem
    /\ iter = NoIter
    /\ ret = Ret("new", TRUE, 0, "")
    /\ npub = 0
    /\ nyield = 0
    /\ nused = 0
    /\ snap = NoSnap
    /\ NoChainYet
    /\ NoAddUsedInProgress
    /\ NoHistory
    /\ NoLoop

NextValid == IsValid

SpecValid == InitValid /\ [][NextValid]_vars

(* ------------------------------------------------------------------ *)
(* Queue::go_to_previous_position                                      *)
(* ------------------------------------------------------------------ *)
\* wrong variant: the cursor is decremented without wrapping
NextAvailBackNoWrap == next_avail - 1

\* self.next_avail -= Wrapping(1)
NextAvailBack == WrapSub(next_avail, 1)

\* pub fn go_to_previous_position(&mut self)
GoToPreviousPosition ==
    /\ ~iter.alive
    /\ nback < MaxBack
    /\ next_avail' = NextAvailBack
    /\ nback' = nback + 1
    /\ ret' = Ret("go_to_previous_position", TRUE, 0, "")
    /\ UNCHANGED << mem, cfg, next_used, event_idx_enabled, signalled_used, iter,
                    npub, nyield, nused, snap >>
    /\ UNCHANGED << chainv, concv, mark, last, heads, loopv >>

(* ------------------------------------------------------------------ *)
(* Specification of the iterator with a device that steps back         *)
(* ------------------------------------------------------------------ *)
InitRedo ==
    /\ max_size = MaxQueueSize
    /\ size \in QueueSizes
    /\ ready = TRUE
    /\ desc_table = 0 /\ avail_ring = 32 /\ used_ring = 44
    /\ next_avail \in StartIdx
    /\ next_used = 0
    /\ event_idx_enabled = FALSE
    /\ signalled_used = None
    /\ mem = WriteU16(ZeroMem, avail_ring + 2, next_avail)
    /\ iter = NoIter
    /\ ret = Ret("new", TRUE, 0, "")
    /\ npub = 0
    /\ nyield = 0
    /\ nused = 0
    /\ snap = NoSnap
    /\ NoChainYet
    /\ NoAddUsedInProgress
    /\ NoHistory
    /\ NoLoop

NextRedo ==
    \/ DriverPublish
    \/ Iter
    \/ AvailIterNext
    \/ IterDrop
    \/ AddUsed
    \/ GoToPreviousPosition

SpecRedo == InitRedo /\ [][NextRedo]_vars

(* ------------------------------------------------------------------ *)
(* Specification of a sweep of next_used over more than 2^16 values    *)
(* ------------------------------------------------------------------ *)
\* tests::test_needs_notification: used_event is 4, and needs_notification is called
\* for next_used = 0, 1, ..., 2^16 + 11
SweepUsedEvent == 4
SweepTail == 12
SweepCalls == U16 + SweepTail

InitSweep ==
    /\ max_size = MaxQueueSize
    /\ size \in QueueSizes
    /\ ready = TRUE
    /\ desc_table = 0 /\ avail_ring = 32 /\ used_ring = 44
    /\ next_avail = 0
    /\ next_used = 0
    /\ event_idx_enabled = TRUE
    /\ signalled_used = None
    /\ mem = WriteU16(ZeroMem, avail_ring + 4 + 2 * size, SweepUsedEvent)
    /\ iter = NoIter
    /\ ret = Ret("set_event_idx", TRUE, BoolVal(TRUE), "")
    /\ npub = 0
    /\ nyield = 0
    /\ nused = 0
    /\ snap = NoSnap
    /\ NoChainYet
    /\ NoAddUsedInProgress
    /\ NoHistory
    /\ NoLoop

\* needs_notification, called once for each value of next_used
SweepNeedsNotification ==
    /\ ret.op /= "needs_notification"
    /\ NeedsNotificationCall
    /\ UNCHANGED << mem, cfg, next_avail, next_used, event_idx_enabled, iter, npub, nyield, nused, snap >>
    /\ UNCHANGED << chainv, concv >>
    /\ UNCHANGED << histv, loopv >>

\* add_used between two calls takes next_used to its next value
SweepAddUsed ==
    /\ ret.op = "needs_notification"
    /\ nused < SweepCalls - 1
    /\ AddUsedCall(0, 1)
    /\ nused' = nused + 1
    /\ UNCHANGED << cfg, next_avail, event_idx_enabled, signalled_used, iter, npub, nyield, snap >>
    /\ UNCHANGED << chainv, concv >>
    /\ UNCHANGED << histv, loopv >>

NextSweep ==
    \/ SweepNeedsNotification
    \/ SweepAddUsed

SpecSweep == InitSweep /\ [][NextSweep]_vars

(* ------------------------------------------------------------------ *)
(* Descriptor and DescriptorChain                                      *)
(* ------------------------------------------------------------------ *)
\* A Descriptor as its 16 bytes in guest memory: addr (u64), len (u32), flags (u16),
\* next (u16). Guest addresses of the model are below 2^31, so the upper four bytes of
\* addr are zero.
DescBytes(addr, len, flags, next) ==
    LeBytes4(addr) \o << 0, 0, 0, 0 >> \o LeBytes4(len) \o LeBytes2(flags) \o LeBytes2(next)

\* mem.read_obj::<Descriptor>(a)
ReadDesc(m, a) ==
    [addr |-> ReadU32(m, a), len |-> ReadU32(m, a + 8),
     flags |-> ReadU16(m, a + 12), next |-> ReadU16(m, a + 14)]

\* flags & bit != 0, for a flag bit (a power of two)
HasFlag(flags, bit) == (flags \div bit) % 2 = 1

\* Descriptor::is_indirect, has_next, is_write_only
is_indirect(d) == HasFlag(d.flags, VIRTQ_DESC_F_INDIRECT)
has_next(d) == HasFlag(d.flags, VIRTQ_DESC_F_NEXT)
is_write_only(d) == HasFlag(d.flags, VIRTQ_DESC_F_WRITE)

\* DescriptorChain::new(mem, desc_table, queue_size, head_index)
NewChain(table, queue_size, head_index) ==
    [desc_table |-> table, queue_size |-> queue_size, head_index |-> head_index,
     next_index |-> head_index, ttl |-> queue_size, is_indirect |-> FALSE]

\* wrong variant: the index is not compared with the table size
ChainAtEndTtlOnly(c) == c.ttl = 0

\* self.ttl == 0 || self.next_index >= self.queue_size
ChainAtEnd(c) == c.ttl = 0 \/ c.next_index >= c.queue_size

\* desc_table + next_index * size_of::<Descriptor>()
DescAddr(c) == c.desc_table + c.next_index * VIRTQ_DESCRIPTOR_SIZE

\* an expansion that accepts an indirect descriptor inside an indirect table
NestedIndirectAllowed(c) == FALSE

\* if self.is_indirect { return Err(InvalidIndirectDescriptor) }
NestedIndirect(c) == c.is_indirect

\* the table of an indirect descriptor is misaligned, not a whole number of
\* descriptors, or longer than u16::MAX descriptors
BadIndirectTable(d) ==
    \/ d.addr % VIRTQ_DESCRIPTOR_SIZE /= 0
    \/ d.len % VIRTQ_DESCRIPTOR_SIZE /= 0
    \/ d.len \div VIRTQ_DESCRIPTOR_SIZE > U16_MAX

\* process_indirect_descriptor succeeds on d
IndirectOk(c, d) == ~NestedIndirect(c) /\ ~BadIndirectTable(d)

\* wrong variant: the expansion keeps the ttl the chain had in the descriptor table
EnterIndirectKeepingTtl(c, d) ==
    [c EXCEPT !.desc_table = d.addr,
              !.queue_size = d.len \div VIRTQ_DESCRIPTOR_SIZE,
              !.next_index = 0,
              !.is_indirect = TRUE]

\* the chain after process_indirect_descriptor(d) returned Ok
EnterIndirect(c, d) ==
    [c EXCEPT !.desc_table = d.addr,
              !.queue_size = d.len \div VIRTQ_DESCRIPTOR_SIZE,
              !.next_index = 0,
              !.ttl = d.len \div VIRTQ_DESCRIPTOR_SIZE,
              !.is_indirect = TRUE]

\* a traversal that follows next links without counting them
TtlNotDecremented(c) == c.ttl

\* self.ttl -= 1
TtlAfterNext(c) == c.ttl - 1

\* the chain after yielding d
AfterYield(c, d) ==
    IF has_next(d) THEN [c EXCEPT !.next_index = d.next, !.ttl = TtlAfterNext(c)]
                   ELSE [c EXCEPT !.ttl = 0]

\* counters saturate here
CtrCap == 9
Bump(n) == IF n < CtrCap THEN n + 1 ELSE n

\* The caller calls next() on the chain.
ChainCall ==
    /\ cpc = "idle"
    /\ chain /= NoChain
    /\ ~rwiter.active
    /\ cpc' = "enter"
    /\ depth' = 1
    /\ UNCHANGED << mem, cfg, cursors, iter, ret, npub, nyield, nused, snap, chain, ctr, concv >>
    /\ UNCHANGED rwiter
    /\ UNCHANGED << histv, loopv >>

\* One activation of fn next(&mut self) -> Option<Descriptor>, from its entry to its
\* return or to its call of self.next() after a successful indirect expansion (whose
\* result it returns as it is).
ChainNextStep ==
    /\ cpc = "enter"
    /\ IF ChainAtEnd(chain)
       THEN /\ ret' = Ret("chain_next", FALSE, 0, "")
            /\ cpc' = "idle"
            /\ UNCHANGED << chain, depth, ctr >>
       ELSE IF ~InRange(DescAddr(chain), VIRTQ_DESCRIPTOR_SIZE)
       THEN /\ ret' = Ret("chain_next", FALSE, 0, "GuestMemory")
            /\ cpc' = "idle"
            /\ UNCHANGED << chain, depth, ctr >>
       ELSE LET desc == ReadDesc(mem, DescAddr(chain))
            IN  IF is_indirect(desc)
                THEN IF IndirectOk(chain, desc)
                     THEN /\ chain' = EnterIndirect(chain, desc)
                          /\ depth' = Bump(depth)
                          /\ ctr' = [ctr EXCEPT !.expanded = Bump(ctr.expanded)]
                          /\ UNCHANGED << cpc, ret >>
                     ELSE /\ ret' = Ret("chain_next", FALSE, 0,
                                        IF NestedIndirect(chain) THEN "InvalidIndirectDescriptor"
                                                                 ELSE "InvalidIndirectDescriptorTable")
                          /\ cpc' = "idle"
                          /\ UNCHANGED << chain, depth, ctr >>
                ELSE /\ chain' = AfterYield(chain, desc)
                     /\ ret' = RetArg("chain_next", TRUE, DescAddr(chain), desc.flags, "")
                     /\ cpc' = "idle"
                     /\ ctr' = [ctr EXCEPT !.yielded = Bump(ctr.yielded),
                                           !.direct = IF chain.is_indirect THEN @ ELSE Bump(@)]
                     /\ UNCHANGED depth
    /\ UNCHANGED << mem, cfg, cursors, iter, npub, nyield, nused, snap, concv, rwiter >>
    /\ UNCHANGED << histv, loopv >>

(* ------------------------------------------------------------------ *)
(* Specification of one descriptor chain over arbitrary table contents *)
(* ------------------------------------------------------------------ *)
\* Descriptors << addr, len, flags, next >> the guest may have put at index 0 of the
\* descriptor table (at guest address 0): plain and device-writable buffers; links to
\* itself, to index 1 and past the table; indirect descriptors whose table (at 32) has
\* 2, 1, 3 or 0 entries, is the descriptor table itself, is misaligned, is not a whole
\* number of descriptors, has 65536 entries, or ends beyond guest memory.
HeadDescs ==
    { << 64, 16, 0, 0 >>, << 64, 16, 2, 0 >>,
      << 64, 16, 1, 0 >>, << 64, 16, 1, 1 >>, << 64, 16, 1, 2 >>,
      << 32, 32, 4, 0 >>, << 32, 16, 5, 1 >>, << 32, 48, 4, 0 >>, << 0, 32, 4, 0 >>,
      << 32, 0, 4, 0 >>, << 33, 32, 4, 0 >>, << 32, 24, 4, 0 >>, << 32, 1048576, 4, 0 >>, << 80, 32, 4, 0 >> }

\* ... at index 1 of the descriptor table
SecondDescs ==
    { << 64, 16, 0, 0 >>, << 64, 16, 1, 0 >>, << 64, 16, 3, 1 >>,
      << 32, 32, 4, 0 >>, << 32, 16, 5, 0 >> }

\* ... at entries 0 and 1 of the table at guest address 32
IndirectDescs0 ==
    { << 64, 16, 0, 0 >>, << 64, 16, 1, 0 >>, << 64, 16, 3, 1 >>, << 64, 16, 1, 2 >>,
      << 32, 32, 4, 0 >> }
IndirectDescs1 ==
    { << 64, 16, 2, 0 >>, << 64, 16, 1, 0 >>, << 64, 16, 1, 2 >>, << 48, 16, 4, 0 >> }

PutDesc(m, a, d) == WriteBytes(m, a, DescBytes(d[1], d[2], d[3], d[4]))

\* guest memory holding the four descriptors, a third table entry at 64 and a
\* descriptor at 80 that both link on
TableImage(d0, d1, i0, i1) ==
    PutDesc(PutDesc(PutDesc(PutDesc(PutDesc(PutDesc(ZeroMem,
        0, d0), 16, d1), 32, i0), 48, i1), 64, << 64, 16, 1, 0 >>), 80, << 64, 16, 1, 1 >>)

\* queue sizes and head indices a chain is created with (a head may be out of range)
ChainSizes == {1, 2}
ChainHeads == {0, 1, 2}

InitChain ==
    /\ max_size = MaxQueueSize
    /\ size \in ChainSizes
    /\ ready = TRUE
    /\ desc_table = 0 /\ avail_ring = 0 /\ used_ring = 0
    /\ next_avail = 0
    /\ next_used = 0
    /\ event_idx_enabled = FALSE
    /\ signalled_used = None
    /\ \E d0 \in HeadDescs, d1 \in SecondDescs, i0 \in IndirectDescs0, i1 \in IndirectDescs1 :
         mem = TableImage(d0, d1, i0, i1)
    /\ iter = NoIter
    /\ ret = Ret("new", TRUE, 0, "")
    /\ npub = 0
    /\ nyield = 0
    /\ nused = 0
    /\ snap = NoSnap
    /\ \E head \in ChainHeads : chain = NewChain(desc_table, actual_size, head)
    /\ cpc = "idle"
    /\ depth = 0
    /\ ctr = ZeroCtr
    /\ rwiter = NoRwIter
    /\ NoAddUsedInProgress
    /\ NoHistory
    /\ NoLoop

NextChain ==
    \/ ChainCall
    \/ ChainNextStep

SpecChain == InitChain /\ [][NextChain]_vars

\* the caller keeps calling next(), and a call that has started runs on
SpecChainFair == SpecChain /\ WF_vars(ChainCall) /\ WF_vars(ChainNextStep)

(* ------------------------------------------------------------------ *)
(* DescriptorChain::readable, writable and DescriptorChainRwIter       *)
(* ------------------------------------------------------------------ *)
\* What one call of DescriptorChain::next on chain c over memory m returns (the
\* descriptor and its guest address, or None) and the chain it leaves; after a
\* successful expansion it is what the call of self.next() returns.
RECURSIVE NextOf(_, _)
NextOf(m, c) ==
    IF ChainAtEnd(c) \/ ~InRange(DescAddr(c), VIRTQ_DESCRIPTOR_SIZE)
    THEN [item |-> None, chain |-> c]
    ELSE LET desc == ReadDesc(m, DescAddr(c))
         IN  IF is_indirect(desc)
             THEN IF IndirectOk(c, desc) THEN NextOf(m, EnterIndirect(c, desc))
                                         ELSE [item |-> None, chain |-> c]
             ELSE [item |-> Some([at |-> DescAddr(c), desc |-> desc]),
                   chain |-> AfterYield(c, desc)]

\* the descriptors that the calls of next() on chain c yield until the first None
RECURSIVE ChainSeq(_, _)
ChainSeq(m, c) ==
    LET r == NextOf(m, c)
    IN  IF r.item = None THEN << >> ELSE r.item \o ChainSeq(m, r.chain)

\* wrong variant: the filter lets the readable descriptors through, whatever it is for
RwMatchesReadable(v, writable) == ~is_write_only(v)

\* v.is_write_only() == self.writable
RwMatches(v, writable) == is_write_only(v) = writable

\* wrong variant: the filter returns None at the first descriptor that does not match
RwNextOfStopping(m, c, writable) ==
    LET r == NextOf(m, c)
    IN  IF r.item = None THEN r
        ELSE IF RwMatches(r.item[1].desc, writable) THEN r
        ELSE [item |-> None, chain |-> r.chain]

\* DescriptorChainRwIter::next: the loop over self.chain.next()
RECURSIVE RwNextOf(_, _, _)
RwNextOf(m, c, writable) ==
    LET r == NextOf(m, c)
    IN  IF r.item = None THEN r
        ELSE IF RwMatches(r.item[1].desc, writable) THEN r
        ELSE RwNextOf(m, r.chain, writable)

\* the descriptors that the calls of next() on the adapter yield until the first None
RECURSIVE RwSeq(_, _, _)
RwSeq(m, c, writable) ==
    LET r == RwNextOf(m, c, writable)
    IN  IF r.item = None THEN << >> ELSE r.item \o RwSeq(m, r.chain, writable)

\* DescriptorChain::readable(self), DescriptorChain::writable(self)
NewRwIter(c, writable) == [active |-> TRUE, writable |-> writable, from |-> c, out |-> << >>]

RwAdapter(writable) ==
    /\ cpc = "idle"
    /\ chain /= NoChain
    /\ ~rwiter.active
    /\ rwiter' = NewRwIter(chain, writable)
    /\ ret' = Ret(IF writable THEN "writable" ELSE "readable", TRUE, 0, "")
    /\ UNCHANGED << mem, cfg, cursors, iter, npub, nyield, nused, snap >>
    /\ UNCHANGED << chain, cpc, depth, ctr, concv, histv, loopv >>

Readable == RwAdapter(FALSE)
Writable == RwAdapter(TRUE)

\* one call of next() on the adapter
RwIterNext ==
    /\ rwiter.active
    /\ LET r == RwNextOf(mem, chain, rwiter.writable)
       IN  /\ chain' = r.chain
           /\ IF r.item = None
              THEN /\ ret' = Ret("rw_next", FALSE, 0, "")
                   /\ UNCHANGED rwiter
              ELSE /\ ret' = RetArg("rw_next", TRUE, r.item[1].at, r.item[1].desc.flags, "")
                   /\ rwiter' = [rwiter EXCEPT !.out = @ \o r.item]
    /\ UNCHANGED << mem, cfg, cursors, iter, npub, nyield, nused, snap >>
    /\ UNCHANGED << cpc, depth, ctr, concv, histv, loopv >>

(* ------------------------------------------------------------------ *)
(* Specification of a chain that is traversed directly or filtered     *)
(* ------------------------------------------------------------------ *)
NextRw ==
    \/ ChainCall
    \/ ChainNextStep
    \/ Readable
    \/ Writable
    \/ RwIterNext

SpecRw == InitChain /\ [][NextRw]_vars

(* ------------------------------------------------------------------ *)
(* add_used step by step, beside a driver that reads the used ring     *)
(* ------------------------------------------------------------------ *)
\* The fields of VirtqUsedElem { id: u32, len: u32 }, their offsets in the element and
\* their bytes. write_obj is not one access of guest memory: the driver can observe
\* the element with one field written and the other not, in either order.
ElemFields == {"id", "len"}
FieldOffset(f) == IF f = "id" THEN 0 ELSE 4
FieldBytes(d, f) == LeBytes4(IF f = "id" THEN d.head ELSE d.len)

\* a device whose store of idx is not ordered after its write of the element
PublishUnordered(d) == TRUE

\* mem.store(next_used, used_ring + 2, Ordering::Release) comes after write_obj in
\* program order and, being a release store, is not visible before it
PublishOrdered(d) == d.done = ElemFields

\* The driver has at most `size` buffers in flight, and takes a buffer back only when
\* it has read its used element: the device is never asked to add a used element
\* while `size` of them are still unread.
UsedRingHasRoom == WrapSub(next_used, drv.consumed) < actual_size

\* add_used, from its entry to the address of the slot it is going to write
AddUsedBegin ==
    /\ dev.pc = "idle"
    /\ nused < MaxUsed
    /\ UsedRingHasRoom
    /\ \E head_index \in Heads, len \in Lens :
         IF HeadOutOfBounds(head_index)
         THEN /\ ret' = RetArg("add_used", FALSE, head_index, len, "InvalidDescriptorIndex")
              /\ dev' = dev
         ELSE /\ dev' = [pc |-> "write", addr |-> UsedSlotAddr, head |-> head_index,
                         len |-> len, done |-> {}]
              /\ ret' = ret
    /\ nused' = nused + 1
    /\ UNCHANGED << mem, cfg, cursors, iter, npub, nyield, snap, chainv, drv, log >>
    /\ UNCHANGED << histv, loopv >>

\* mem.write_obj(VirtqUsedElem::new(head_index, len), addr), one field at a time
AddUsedWriteField ==
    /\ dev.pc = "write"
    /\ IF ~InRange(dev.addr, VIRTQ_USED_ELEMENT_SIZE)
       THEN /\ ret' = RetArg("add_used", FALSE, dev.head, dev.len, "GuestMemory")
            /\ dev' = IdleDev
            /\ mem' = mem
       ELSE \E f \in ElemFields \ dev.done :
              /\ mem' = WriteBytes(mem, dev.addr + FieldOffset(f), FieldBytes(dev, f))
              /\ dev' = [dev EXCEPT !.done = @ \cup {f}]
              /\ ret' = ret
    /\ UNCHANGED << cfg, cursors, iter, npub, nyield, nused, snap, chainv, drv, log >>
    /\ UNCHANGED << histv, loopv >>

\* self.next_used += Wrapping(1); mem.store(self.next_used.0, used_ring + 2, Release)
AddUsedPublish ==
    /\ dev.pc = "write"
    /\ PublishOrdered(dev)
    /\ next_used' = NextUsedAdvanced
    /\ log' = Append(log, << dev.head, dev.len >>)
    /\ IF InRange(UsedIdxAddr, 2)
       THEN /\ mem' = WriteU16(mem, UsedIdxAddr, NextUsedAdvanced)
            /\ ret' = RetArg("add_used", TRUE, dev.head, dev.len, "")
       ELSE /\ mem' = mem
            /\ ret' = RetArg("add_used", FALSE, dev.head, dev.len, "GuestMemory")
    /\ dev' = IdleDev
    /\ UNCHANGED << cfg, next_avail, event_idx_enabled, signalled_used, iter,
                    npub, nyield, nused, snap, chainv, drv >>
    /\ UNCHANGED << histv, loopv >>

\* The driver loads used.idx (with acquire ordering) and finds it ahead of what it has
\* consumed.
DriverLoadUsedIdx ==
    /\ drv.pc = "idle"
    /\ InRange(UsedIdxAddr, 2)
    /\ ReadU16(mem, UsedIdxAddr) /= drv.consumed
    /\ drv' = [drv EXCEPT !.pc = "got", !.k = ReadU16(mem, UsedIdxAddr)]
    /\ UNCHANGED << mem, cfg, cursors, iter, ret, npub, nyield, nused, snap, chainv, dev, log >>
    /\ UNCHANGED << histv, loopv >>

\* slot ((k - 1) mod size) of the used ring, for the idx k the driver loaded
DriverSlotAddr == used_ring + VIRTQ_USED_RING_HEADER_SIZE
                    + (WrapSub(drv.k, 1) % actual_size) * VIRTQ_USED_ELEMENT_SIZE

\* The driver reads the newest element below the idx it loaded, and takes the buffers
\* up to that idx back.
DriverReadUsedElem ==
    /\ drv.pc = "got"
    /\ InRange(DriverSlotAddr, VIRTQ_USED_ELEMENT_SIZE)
    /\ drv' = [drv EXCEPT !.pc = "idle", !.consumed = drv.k,
                          !.id = ReadU32(mem, DriverSlotAddr),
                          !.len = ReadU32(mem, DriverSlotAddr + 4)]
    /\ UNCHANGED << mem, cfg, cursors, iter, ret, npub, nyield, nused, snap, chainv, dev, log >>
    /\ UNCHANGED << histv, loopv >>

InitConc ==
    /\ max_size = MaxQueueSize
    /\ size \in QueueSizes
    /\ ready = TRUE
    /\ \E l \in Layouts : desc_table = l.d /\ avail_ring = l.a /\ used_ring = l.u
    /\ next_avail = 0
    /\ next_used \in StartIdx
    /\ event_idx_enabled = FALSE
    /\ signalled_used = None
    /\ mem = StoreIfMapped(ZeroMem, used_ring + 2, next_used)
    /\ iter = NoIter
    /\ ret = Ret("new", TRUE, 0, "")
    /\ npub = 0
    /\ nyield = 0
    /\ nused = 0
    /\ snap = NoSnap
    /\ NoChainYet
    /\ dev = IdleDev
    /\ drv = [IdleDrv EXCEPT !.start = next_used, !.consumed = next_used]
    /\ log = << >>
    /\ NoHistory
    /\ NoLoop

NextConc ==
    \/ AddUsedBegin
    \/ AddUsedWriteField
    \/ AddUsedPublish
    \/ DriverLoadUsedIdx
    \/ DriverReadUsedElem

SpecConc == InitConc /\ [][NextConc]_vars

(* ------------------------------------------------------------------ *)
(* Specification of a queue in any configuration of its public fields  *)
(* ------------------------------------------------------------------ *)

\* how far the idx fields of the two rings are ahead of the device's cursors at the
\* start of the run
IdxAhead == {0, 1}

\* size, ready and the ring addresses are public fields that the device sets without
\* any validation: size ranges over 0, the powers of two, other values and values
\* above max_size
InitAny ==
    /\ max_size = MaxQueueSize
    /\ size \in ConfigSizes
    /\ ready \in BOOLEAN
    /\ \E l \in Layouts : desc_table = l.d /\ avail_ring = l.a /\ used_ring = l.u
    /\ next_avail \in StartIdx
    /\ next_used = 0
    /\ event_idx_enabled = FALSE
    /\ signalled_used = None
    /\ \E a \in IdxAhead, u \in IdxAhead :
           mem = StoreIfMapped(StoreIfMapped(ZeroMem, avail_ring + 2, WrapAdd(next_avail, a)),
                               used_ring + 2, u)
    /\ iter = NoIter
    /\ ret = Ret("new", TRUE, 0, "")
    /\ npub = 0
    /\ nyield = 0
    /\ nused = 0
    /\ snap = NoSnap
    /\ NoChainYet
    /\ NoAddUsedInProgress
    /\ NoHistory
    /\ NoLoop

NextAny ==
    \/ IsValid
    \/ Iter
    \/ AvailIterNext
    \/ IterDrop
    \/ AddUsed

SpecAny == InitAny /\ [][NextAny]_vars

(* ------------------------------------------------------------------ *)
(* Specification of notification over all valid queue sizes            *)
(* ------------------------------------------------------------------ *)

\* the largest queue size of a split virtqueue, and the valid sizes: the powers of two
\* up to it
MaxValidSize == U16 \div 2
ValidSizes == {s \in 1 .. MaxValidSize : \E k \in 0 .. 15 : s = 2 ^ k}

\* guest address of the used_event field of an available ring of `size` entries
UsedEventField == avail_ring + 4 + 2 * size

\* A queue of any valid size. Guest memory is as small as elsewhere, so the rings of
\* the larger queues reach beyond it and accesses to their far fields fault.
InitBig ==
    /\ max_size = MaxValidSize
    /\ size \in ValidSizes
    /\ ready = TRUE
    /\ \E l \in Layouts : desc_table = l.d /\ avail_ring = l.a /\ used_ring = l.u
    /\ next_avail \in StartIdx
    /\ next_used = 0
    /\ event_idx_enabled = FALSE
    /\ signalled_used = None
    /\ mem = ZeroMem
    /\ iter = NoIter
    /\ ret = Ret("new", TRUE, 0, "")
    /\ npub = 0
    /\ nyield = 0
    /\ nused = 0
    /\ snap = NoSnap
    /\ NoChainYet
    /\ NoAddUsedInProgress
    /\ NoHistory
    /\ NoLoop

NextBig ==
    \/ SetEventIdx
    \/ EnableNotification
    \/ NeedsNotification
    \/ AddUsed

SpecBig == InitBig /\ [][NextBig]_vars

(* ------------------------------------------------------------------ *)
(* Queue::set_next_avail                                               *)
(* ------------------------------------------------------------------ *)
\* values the device passes to set_next_avail
NextAvailVals == {0, U16_MAX}

\* pub fn set_next_avail(&mut self, next_avail: u16)
SetNextAvail ==
    /\ ~iter.alive
    /\ \E v \in NextAvailVals :
         /\ next_avail' = v
         /\ ret' = Ret("set_next_avail", TRUE, v, "")
    /\ UNCHANGED << mem, cfg, next_used, event_idx_enabled, signalled_used, iter,
                    npub, nyield, nused, snap >>
    /\ UNCHANGED << chainv, concv, histv, loopv >>

(* ------------------------------------------------------------------ *)
(* Specification of the operations that work on the queue's own fields *)
(* ------------------------------------------------------------------ *)
NextFrame ==
    \/ AddUsed
    \/ DisableNotification
    \/ Reset
    \/ SetEventIdx
    \/ SetNextAvail
    \/ GoToPreviousPosition
    \/ IsValid

\* a new queue whose rings lie in guest memory
InitFrame ==
    /\ Init
    /\ next_avail = 0
    /\ InRange(avail_ring, 4 + 2 * size + 2)
    /\ InRange(used_ring, 4 + 8 * size + 2)

SpecFrame == InitFrame /\ [][NextFrame]_vars

(* ------------------------------------------------------------------ *)
(* Specification of the iterator beside a driver that waits for room   *)
(* ------------------------------------------------------------------ *)

\* the driver publishes only while it is fewer than `size` entries ahead of the device
DriverPublishWithRoom ==
    /\ WrapSub(PublishedIdx, next_avail) < size
    /\ DriverPublish

NextOrder ==
    \/ DriverPublishWithRoom
    \/ Iter
    \/ AvailIterNext
    \/ IterDrop
    \/ AddUsed

SpecOrder == Init /\ [][NextOrder]_vars

(* ------------------------------------------------------------------ *)
(* Claims about avail_idx, iter and AvailIter::next                    *)
(* ------------------------------------------------------------------ *)

\* C1: whenever avail_ring and used_ring are different addresses, a successful
\* avail_idx() returns the idx field of the available ring, the u16 stored at
\* avail_ring + 2.
C1_AvailIdxReadsAvailRing ==
    (ret.op = "avail_idx" /\ ret.ok /\ avail_ring /= used_ring /\ InRange(avail_ring + 2, 2))
        => ret.val = ReadU16(mem, avail_ring + 2)

\* C2: an iterator yields chains only for cursor positions inside the wrapped window
\* from next_avail (at the time of iter()) up to the idx the driver had published, the
\* head of each being the content of ring slot (cursor mod size); and it reports
\* end-of-stream without a memory fault only once the cursor has reached that idx.
C2_IterYieldsPublishedEntries ==
    (iter.alive /\ ret.op = "next")
        => /\ ret.ok =>
                /\ WrapSub(WrapSub(next_avail, 1), snap.start) < WrapSub(snap.published, snap.start)
                /\ ret.val = ReadU16(mem, AvailSlotAddr(avail_ring, size, WrapSub(next_avail, 1)))
           /\ (~ret.ok /\ ret.err = "") => next_avail = snap.published

\* C3: a call of AvailIter::next either returns a chain and advances next_avail by
\* exactly one modulo 2^16, which it does only when next_avail differs from last_index,
\* or returns end-of-stream and leaves next_avail unchanged, which it does when
\* next_avail equals last_index or the read of the ring slot fails.
C3_AvailIterNextStep ==
    [][ ret'.op = "next" =>
          /\ IterAtEnd => ~ret'.ok
          /\ ret'.ok => (~IterAtEnd /\ next_avail' = (next_avail + 1) % 65536)
          /\ ~ret'.ok => /\ next_avail' = next_avail
                         /\ IterAtEnd \/ (ret'.err = "GuestMemory" /\ ~InRange(IterSlotAddr, 2))
          /\ (~IterAtEnd /\ InRange(IterSlotAddr, 2)) => ret'.ok ]_vars

\* C3 witness: a chain was returned while the cursor wrapped from 65535 to 0.
C3_Witness == ret.op = "next" /\ ret.ok /\ next_avail = 0 /\ nyield >= 2

(* ------------------------------------------------------------------ *)
(* Claims about add_used and needs_notification                        *)
(* ------------------------------------------------------------------ *)
\* address of used-ring slot j
UsedRingSlot(j) == used_ring + 4 + j * 8

\* C4: a successful add_used(head, len) has head < size, increases next_used and the
\* used ring's idx field (at used_ring + 2) by exactly one modulo 2^16, writes
\* {id: head, len} into slot (previous next_used mod size) at used_ring + 4 + slot*8,
\* and changes no other byte of guest memory, so no other used-ring slot.
C4_AddUsedPublishes ==
    [][ (ret'.op = "add_used" /\ ret'.ok) =>
          LET slot == next_used % size
          IN  /\ ret'.val < size
              /\ next_used' = (next_used + 1) % 65536
              /\ ReadU16(mem', used_ring + 2) = (ReadU16(mem, used_ring + 2) + 1) % 65536
              /\ ReadU32(mem', UsedRingSlot(slot)) = ret'.val
              /\ ReadU32(mem', UsedRingSlot(slot) + 4) = ret'.arg
              /\ \A a \in Mapped :
                    (mem'[a + 1] /= mem[a + 1]) =>
                        \/ a \in UsedRingSlot(slot) .. (UsedRingSlot(slot) + 7)
                        \/ a \in (used_ring + 2) .. (used_ring + 3) ]_vars

\* C4 witness: add_used succeeded while next_used wrapped from 65535 to 0, on a queue
\* of size 2 whose slot 1 received the element.
C4_Witness ==
    /\ ret.op = "add_used" /\ ret.ok /\ next_used = 0 /\ nused >= 2 /\ size = 2
    /\ ReadU32(mem, UsedRingSlot(1)) = ret.val /\ ret.val = 1
    /\ ReadU32(mem, UsedRingSlot(1) + 4) = ret.arg /\ ret.arg = 4096
    /\ ReadU16(mem, used_ring + 2) = 0

\* C5: add_used(head, len) with head >= size returns InvalidDescriptorIndex and
\* changes neither next_used nor any byte of guest memory.
C5_AddUsedRejectsHead ==
    [][ (ret'.op = "add_used" /\ ret'.val >= size) =>
          /\ ~ret'.ok
          /\ ret'.err = "InvalidDescriptorIndex"
          /\ next_used' = next_used
          /\ mem' = mem ]_vars

\* C5 witness: a head equal to size was rejected after an earlier add_used had
\* moved next_used.
C5_Witness ==
    ret.op = "add_used" /\ ret.val = size /\ ret.err = "InvalidDescriptorIndex" /\ next_used = 1

\* C9: while event-idx is not enabled, needs_notification() returns true and changes
\* neither signalled_used nor a cursor.
C9_AlwaysNotifyWithoutEventIdx ==
    [][ (ret'.op = "needs_notification" /\ ~event_idx_enabled) =>
          /\ ret'.ok /\ ret'.val = 1
          /\ signalled_used' = signalled_used
          /\ next_used' = next_used
          /\ next_avail' = next_avail ]_vars

\* C9 witness: true was returned without event-idx although used_event equals
\* next_used and some entries have been used.
C9_Witness ==
    /\ ret.op = "needs_notification" /\ ret.val = 1 /\ ~event_idx_enabled
    /\ next_used = 1 /\ InRange(UsedEventAddr, 2) /\ ReadU16(mem, UsedEventAddr) = 1
    /\ signalled_used = None

\* the wrapped window {old, old+1, ..., U-1} contains E
InWindow(E, old, U) == \E k \in 0 .. (WrapSub(U, old) - 1) : E = WrapAdd(old, k)

\* C10: with event-idx enabled and a previous signalled_used value old, a call of
\* needs_notification() that reads used_event E with U = next_used returns false
\* exactly when ((U - E - 1) mod 2^16) >= ((U - old) mod 2^16), that is true exactly
\* when E lies in {old, ..., U-1}; and every call sets signalled_used to U.
C10_EventIdxWindow ==
    [][ (ret'.op = "needs_notification" /\ event_idx_enabled /\ signalled_used /= None) =>
          LET U == next_used
              old == signalled_used[1]
          IN  /\ signalled_used' = << U >>
              /\ ret'.ok =>
                   LET E == ReadU16(mem, avail_ring + 4 + 2 * size)
                   IN  /\ (ret'.val = 0) <=> (((U - E - 1) % 65536) >= ((U - old) % 65536))
                       /\ (ret'.val = 1) <=> InWindow(E, old, U) ]_vars

\* C10 witness: true was returned for a window that wraps: old = 65534 or 65535,
\* used_event = 65535 and next_used = 0.
C10_Witness ==
    /\ ret.op = "needs_notification" /\ ret.ok /\ ret.val = 1 /\ event_idx_enabled
    /\ next_used = 0 /\ ret.arg \in {U16 - 2, U16_MAX}
    /\ InRange(UsedEventAddr, 2) /\ ReadU16(mem, UsedEventAddr) = U16_MAX

(* ------------------------------------------------------------------ *)
(* Claims about DescriptorChain::next                                  *)
(* ------------------------------------------------------------------ *)
\* descriptors the chain has yielded from the indirect table it entered
IndirectYielded == ctr.yielded - ctr.direct

\* C7 as stated: a chain yields at most `size` descriptors when it stays in the direct
\* table, and at most the indirect table's element count (len/16) when it has entered
\* an indirect table.
C7_ChainLengthAsStated ==
    IF chain.is_indirect THEN ctr.yielded <= chain.queue_size
                         ELSE ctr.yielded <= size

\* C7, amended: whatever the tables hold, a chain yields at most `size` descriptors
\* from the descriptor table; once it has entered an indirect table it has yielded at
\* most size - 1 descriptors from the descriptor table and yields at most len/16
\* descriptors from the indirect table, which are counted on top of the former.
C7_ChainLengthBounded ==
    /\ ctr.direct <= size
    /\ ~chain.is_indirect => ctr.yielded = ctr.direct
    /\ chain.is_indirect => /\ ctr.direct <= size - 1
                            /\ IndirectYielded <= chain.queue_size

\* a chain that yielded a descriptor of the descriptor table and then went round a
\* self-referential link of a two-entry indirect table until its budget ran out
C7_Witness ==
    /\ chain.is_indirect
    /\ ctr.direct = 1
    /\ chain.queue_size = 2
    /\ IndirectYielded = chain.queue_size
    /\ chain.ttl = 0
    /\ ret.op = "chain_next" /\ ret.ok

\* C8: every call of next() returns, running at most two activations (the call and its
\* self-call after a successful expansion); a chain is expanded into an indirect table
\* at most once; and repeated calls of next() come to return None.
C8_ChainNextTerminates ==
    /\ [](depth <= 2 /\ ctr.expanded <= 1)
    /\ (cpc = "enter") ~> (cpc = "idle")
    /\ <>(cpc = "idle" /\ ret.op = "chain_next" /\ ~ret.ok)

\* a chain that was expanded once, yielded from the indirect table, and whose next()
\* then met a second indirect descriptor and returned None instead of expanding it
C8_Witness ==
    /\ cpc = "idle"
    /\ ctr.expanded = 1
    /\ ctr.yielded >= 1
    /\ chain.is_indirect
    /\ ret.op = "chain_next" /\ ~ret.ok
    /\ ret.err = "InvalidIndirectDescriptor"

(* ------------------------------------------------------------------ *)
(* Claim about add_used beside a concurrent driver                     *)
(* ------------------------------------------------------------------ *)
\* the element of the add_used call that advanced used.idx to k
ElementOfIdx(k) == log[WrapSub(k, drv.start)]

C11_SweepNotifiesAtFive ==
    ret.op = "needs_notification" =>
        /\ ret.ok
        /\ next_used = nused % U16
        /\ (nused = 0) <=> (ret.arg = -1)
        /\ (ret.val = 1) <=> (nused \in {0, SweepUsedEvent + 1, SweepUsedEvent + 1 + U16})

\* the call made when next_used is 5 for the second time, after it wrapped
C11_Witness ==
    /\ ret.op = "needs_notification"
    /\ nused = SweepUsedEvent + 1 + U16
    /\ next_used = SweepUsedEvent + 1
    /\ ret.val = 1

\* C12: with event-idx enabled, a call of needs_notification() returns false when no
\* add_used has been made since the previous call, and returns false when, since an
\* earlier call (made with next_used = mark), used_event has not been written and
\* next_used has not advanced past it, that is used_event is not among
\* mark, ..., next_used - 1.
C12_SuppressionMonotone ==
    [][ (ret'.op = "needs_notification" /\ event_idx_enabled /\ ret'.ok) =>
          /\ signalled_used = Some(next_used) => ret'.val = 0
          /\ (/\ mark /= None
              /\ ~InWindow(ReadU16(mem, avail_ring + 4 + 2 * size), mark[1], next_used))
                => ret'.val = 0 ]_vars

\* a third call that returned false: the queue has added used elements since the call
\* that is kept and since the call before this one, without passing used_event
C12_Witness ==
    /\ ret.op = "needs_notification" /\ ret.ok /\ ret.val = 0
    /\ event_idx_enabled
    /\ mark /= None
    /\ mark[1] /= next_used
    /\ ret.arg \notin {-1, mark[1], next_used}
    /\ signalled_used = Some(next_used)

(* ------------------------------------------------------------------ *)
(* Claims about enable_notification and disable_notification           *)
(* ------------------------------------------------------------------ *)
\* C13: a successful enable_notification() returns true exactly when the idx the
\* driver published in the available ring (at avail_ring + 2) differs from next_avail.
C13_EnableReportsPending ==
    [][ (ret'.op = "enable_notification" /\ ret'.ok) =>
          ((ret'.val = 1) <=> (PublishedIdx /= next_avail)) ]_vars

\* C15: enable_notification() makes one store: of next_avail into the used ring's
\* avail_event with event-idx enabled, of 0 into used.flags without it; it changes no
\* other byte of guest memory (so not the other of the two fields), and changes
\* neither next_avail, next_used and signalled_used nor the configuration. When the
\* store faults it fails and guest memory is as before.
C15_EnableStoresOnce ==
    [][ ret'.op = "enable_notification" =>
          /\ UNCHANGED << cfg, cursors >>
          /\ LET target == IF event_idx_enabled THEN AvailEventField ELSE used_ring
                 val == IF event_idx_enabled THEN next_avail ELSE 0
             IN  IF InRange(target, 2)
                 THEN mem' = WriteU16(mem, target, val)
                 ELSE mem' = mem /\ ~ret'.ok ]_vars

\* with event-idx enabled the cursor was stored into avail_event, and used.flags
\* kept the NO_NOTIFY an earlier disable_notification() had stored
C15_Witness ==
    /\ ret.op = "enable_notification" /\ ret.ok
    /\ event_idx_enabled
    /\ next_avail = U16 - 2
    /\ ReadU16(mem, AvailEventField) = next_avail
    /\ ReadU16(mem, used_ring) = VIRTQ_USED_F_NO_NOTIFY

\* guest memory after disable_notification() is called twice, and once
DisabledTwice == SetNotificationMem(SetNotificationMem(mem, FALSE), FALSE)
DisabledOnce == SetNotificationMem(mem, FALSE)

\* C16: disable_notification() stores NO_NOTIFY (1) into used.flags with event-idx
\* disabled and writes nothing with event-idx enabled; it changes no queue field; and
\* in every state calling it twice gives the guest memory that calling it once gives.
C16_DisableStoresFlag ==
    /\ [][ ret'.op = "disable_notification" =>
             /\ UNCHANGED << cfg, cursors >>
             /\ IF ~event_idx_enabled /\ InRange(used_ring, 2)
                THEN mem' = WriteU16(mem, used_ring, 1) /\ ret'.ok
                ELSE mem' = mem /\ (ret'.ok <=> event_idx_enabled) ]_vars
    /\ [](DisabledTwice = DisabledOnce)

\* disable_notification() has brought used.flags from 0 to NO_NOTIFY while the
\* avail_event field holds a cursor stored earlier
C16_Witness ==
    /\ ret.op = "disable_notification" /\ ret.ok
    /\ ~event_idx_enabled
    /\ ReadU16(mem, used_ring) = VIRTQ_USED_F_NO_NOTIFY
    /\ InRange(AvailEventField, 2)
    /\ ReadU16(mem, AvailEventField) = U16 - 2

\* C14: the device never waits for a notification while the driver has finished
\* publishing, avail.idx differs from next_avail, and no notification is pending.
C14_NoLostWakeup ==
    ~(Waiting /\ ~pending /\ dpc = "idle" /\ PublishedIdx /= next_avail)

(* ------------------------------------------------------------------ *)
(* Claims about reset, is_valid and go_to_previous_position            *)
(* ------------------------------------------------------------------ *)
\* C17: reset() leaves the queue with the fields of a queue freshly constructed with
\* the same max_size and does not touch guest memory; and from every state two
\* reset() calls leave the fields that one call leaves.
C17_ResetGivesNewQueue ==
    /\ [][ ret'.op = "reset" =>
             /\ QueueFields' = NewQueue(max_size)
             /\ max_size' = max_size
             /\ mem' = mem ]_vars
    /\ [](ResetOf(ResetOf(QueueFields)) = ResetOf(QueueFields))

\* a reset of a queue that had a smaller size, rings away from 0, a used element added,
\* event-idx enabled and a notification decided
C17_Witness ==
    /\ ret.op = "reset"
    /\ QueueFields = NewQueue(max_size)
    /\ nused > 0
    /\ \E l \in Layouts : /\ l.u /= used_ring
                         /\ InRange(l.u + 2, 2)
                         /\ ReadU16(mem, l.u + 2) > 0

\* the byte span [base, base + n) lies within guest memory
SpanMapped(base, n) == \A a \in base .. (base + n - 1) : a \in Mapped

\* the rings' spans, with the ring sizes 16*size, 6 + 2*size and 6 + 8*size
RingsMapped ==
    /\ SpanMapped(desc_table, 16 * size)
    /\ SpanMapped(avail_ring, 6 + 2 * size)
    /\ SpanMapped(used_ring, 6 + 8 * size)

\* ready, a size that is a power of two in 1 .. max_size, and aligned rings
ReadySizedAligned ==
    /\ ready
    /\ size \in 1 .. max_size /\ IsPow2(size)
    /\ desc_table % 16 = 0 /\ avail_ring % 2 = 0 /\ used_ring % 4 = 0

\* C18: is_valid() returns true if and only if the queue is ready, its size is a
\* non-zero power of two not above max_size, the rings are aligned (16, 2, 4) and each
\* ring's byte span lies entirely within guest memory.
C18_IsValidIffInvariants ==
    ret.op = "is_valid" => ((ret.val = 1) <=> (ReadySizedAligned /\ RingsMapped))

\* C19: is_valid() rejects a ready queue with a legal size and aligned rings only when
\* some byte of a ring's span [base, base + ring_size) is outside guest memory; a ring
\* that ends exactly at the end of guest memory is accepted.
C19_RingMayEndAtEndOfMemory ==
    (ret.op = "is_valid" /\ ret.val = 0 /\ ReadySizedAligned) => ~RingsMapped

C21_InvalidQueueYieldsNothing ==
    [][ (ret.op = "iter" /\ ret.ok /\ ~IsValidResult /\ ret'.op = "next") => ~ret'.ok ]_vars

\* C22: no operation of the queue or of its iterator panics, whatever the public
\* fields and the guest memory hold.
C22_NoOperationPanics == ret.err /= "panic"

(* ------------------------------------------------------------------ *)
(* Claims about the steps of DescriptorChain::next                     *)
(* ------------------------------------------------------------------ *)

\* an activation of next() is at its entry and loads the descriptor at next_index
LoadsDesc ==
    cpc = "enter" /\ ~(chain.ttl = 0 \/ chain.next_index >= chain.queue_size)
                  /\ InRange(DescAddr(chain), VIRTQ_DESCRIPTOR_SIZE)

\* the descriptor that activation loads
LoadedDesc == ReadDesc(mem, DescAddr(chain))

\* the step returns None from next()
ReturnsNone == ret'.op = "chain_next" /\ ~ret'.ok /\ cpc' = "idle"

\* the step returns the loaded descriptor from next()
YieldsLoaded ==
    /\ ret'.op = "chain_next" /\ ret'.ok /\ cpc' = "idle"
    /\ ret'.val = DescAddr(chain) /\ ret'.arg = LoadedDesc.flags

\* C23: next() returns None when ttl = 0, when next_index >= the table size or when
\* the load of the descriptor fails; a descriptor with NEXT is yielded, next_index
\* becomes its next field and ttl decreases by one; a descriptor without NEXT is
\* yielded and ttl becomes 0. So a descriptor with NEXT whose next is not below the
\* table size is yielded itself, and the call after it returns None.
C23_ChainNextSteps ==
    [][ cpc = "enter" =>
          /\ (chain.ttl = 0 \/ chain.next_index >= chain.queue_size
                 \/ ~InRange(DescAddr(chain), VIRTQ_DESCRIPTOR_SIZE))
                => (ReturnsNone /\ chain' = chain)
          /\ (LoadsDesc /\ ~is_indirect(LoadedDesc) /\ has_next(LoadedDesc))
                => /\ YieldsLoaded
                   /\ chain' = [chain EXCEPT !.next_index = LoadedDesc.next,
                                              !.ttl = chain.ttl - 1]
          /\ (LoadsDesc /\ ~is_indirect(LoadedDesc) /\ ~has_next(LoadedDesc))
                => /\ YieldsLoaded
                   /\ chain' = [chain EXCEPT !.ttl = 0]
      ]_vars

\* a descriptor with NEXT and next = 2 in a table of 2 was yielded, ttl is not used
\* up, and the call after it returned None
C23_Witness ==
    /\ ret.op = "chain_next" /\ ~ret.ok /\ ret.err = ""
    /\ ctr.yielded = 1 /\ ~chain.is_indirect
    /\ chain.ttl > 0 /\ chain.next_index >= chain.queue_size
    /\ chain.head_index < chain.queue_size

\* the errors of process_indirect_descriptor
IndirectErrors == {"InvalidIndirectDescriptor", "InvalidIndirectDescriptorTable"}

\* C24: the expansion of an indirect descriptor d fails when the chain is inside an
\* indirect table already, when d.addr or d.len is not a multiple of 16 or when
\* d.len / 16 > 65535; next() then returns None without yielding d, the chain's
\* fields are unchanged, and no later call yields anything.
C24_FailedExpansion ==
    [][ /\ (LoadsDesc /\ is_indirect(LoadedDesc)
               /\ (\/ chain.is_indirect
                   \/ LoadedDesc.addr % 16 /= 0
                   \/ LoadedDesc.len % 16 /= 0
                   \/ LoadedDesc.len \div 16 > 65535))
              => (ReturnsNone /\ ret'.err \in IndirectErrors /\ chain' = chain)
        /\ ret.err \in IndirectErrors => (~ret'.ok /\ chain' = chain)
      ]_vars

\* an indirect descriptor with a table of 65536 descriptors was refused, and the
\* chain is as it was created
C24_Witness ==
    /\ ret.op = "chain_next" /\ ret.err = "InvalidIndirectDescriptorTable"
    /\ InRange(DescAddr(chain), VIRTQ_DESCRIPTOR_SIZE)
    /\ LoadedDesc.len \div 16 > 65535
    /\ chain = NewChain(desc_table, actual_size, chain.head_index)
    /\ ctr.yielded = 0

\* C25: a successful expansion of d sets desc_table = d.addr, table size and ttl =
\* d.len / 16, next_index = 0 and is_indirect = true without yielding d; the next
\* descriptor yielded is entry 0 of the indirect table, every descriptor yielded
\* afterwards is an entry of that table, no indirect descriptor is ever yielded, and
\* the chain stays in the indirect table whether or not d has NEXT set.
C25_SuccessfulExpansion ==
    [][ /\ (LoadsDesc /\ is_indirect(LoadedDesc) /\ ~chain.is_indirect
               /\ LoadedDesc.addr % 16 = 0 /\ LoadedDesc.len % 16 = 0
               /\ LoadedDesc.len \div 16 <= 65535)
              => /\ chain' = [desc_table |-> LoadedDesc.addr,
                              queue_size |-> LoadedDesc.len \div 16,
                              head_index |-> chain.head_index,
                              next_index |-> 0,
                              ttl |-> LoadedDesc.len \div 16,
                              is_indirect |-> TRUE]
                 /\ ret' = ret /\ cpc' = "enter"
        /\ (cpc = "enter" /\ cpc' = "idle" /\ ret'.ok)
              => ~HasFlag(ret'.arg, VIRTQ_DESC_F_INDIRECT)
        /\ (cpc = "enter" /\ cpc' = "idle" /\ ret'.ok /\ chain.is_indirect)
              => /\ \E k \in 0 .. (chain.queue_size - 1) : ret'.val = chain.desc_table + 16 * k
                 /\ depth > 1 => ret'.val = chain.desc_table
        /\ chain.is_indirect
              => (chain'.is_indirect /\ chain'.desc_table = chain.desc_table
                    /\ chain'.queue_size = chain.queue_size)
      ]_vars

\* a linked indirect table of 3 entries, entered from the head of the chain, was
\* yielded whole: 3 descriptors, none of them from the descriptor table
C25_Witness ==
    /\ chain.is_indirect /\ chain.queue_size = 3 /\ chain.ttl = 0
    /\ ctr.yielded = 3 /\ ctr.direct = 0 /\ ctr.expanded = 1
    /\ ret.op = "chain_next" /\ ret.ok

(* ------------------------------------------------------------------ *)
(* Claims about readable() and writable()                              *)
(* ------------------------------------------------------------------ *)

\* the descriptors of sequence s whose WRITE flag is set (w) or clear (~w)
WithWrite(s, w) ==
    LET Keep(x) == HasFlag(x.desc.flags, VIRTQ_DESC_F_WRITE) = w
    IN  SelectSeq(s, Keep)

\* what the chain yields when traversed unfiltered from where the adapter took it
Unfiltered == ChainSeq(mem, rwiter.from)

\* C26: readable() yields exactly the descriptors of the chain whose WRITE flag is
\* clear and writable() exactly those whose WRITE flag is set, in chain order; the
\* two together hold every descriptor of the unfiltered chain exactly once; and a
\* filter returns None exactly when the underlying chain has ended.
C26_RwIterFilters ==
    rwiter.active =>
        /\ rwiter.out \o RwSeq(mem, chain, rwiter.writable)
              = WithWrite(Unfiltered, rwiter.writable)
        /\ RwSeq(mem, rwiter.from, FALSE) = WithWrite(Unfiltered, FALSE)
        /\ RwSeq(mem, rwiter.from, TRUE) = WithWrite(Unfiltered, TRUE)
        /\ Len(RwSeq(mem, rwiter.from, FALSE)) + Len(RwSeq(mem, rwiter.from, TRUE))
              = Len(Unfiltered)
        /\ (ret.op = "rw_next" /\ ~ret.ok)
              => /\ NextOf(mem, chain).item = None
                 /\ rwiter.out = WithWrite(Unfiltered, rwiter.writable)

\* a filter skipped a descriptor, yielded the one after it and then ended: the
\* unfiltered chain has a readable and a device-writable descriptor
C26_Witness ==
    /\ rwiter.active /\ ret.op = "rw_next" /\ ~ret.ok
    /\ Len(rwiter.out) = 1
    /\ Len(Unfiltered) >= 2
    /\ WithWrite(Unfiltered, ~rwiter.writable) /= << >>
    /\ rwiter.out[1] /= Unfiltered[1]

(* ------------------------------------------------------------------ *)
(* Claims about the event fields of large queues                       *)
(* ------------------------------------------------------------------ *)

\* C27: with event-idx enabled, enable_notification() stores next_avail at guest
\* address used_ring + 4 + 8 * size for every power-of-two size up to 32768: the
\* store goes there when the address is in guest memory and the call fails with a
\* guest memory error, storing nothing, when it is not.
C27_AvailEventAtFullOffset ==
    [][ (ret'.op = "enable_notification" /\ event_idx_enabled) =>
          IF InRange(AvailEventField, 2)
          THEN mem' = WriteU16(mem, AvailEventField, next_avail)
          ELSE mem' = mem /\ ~ret'.ok /\ ret'.err = "GuestMemory" ]_vars

\* C28: with event-idx enabled, a needs_notification() that consults used_event reads
\* it at guest address avail_ring + 4 + 2 * size for every power-of-two size up to
\* 32768: its answer is the window test on the value there when the address is in
\* guest memory, and the call fails with a guest memory error when it is not.
C28_UsedEventAtFullOffset ==
    [][ (ret'.op = "needs_notification" /\ event_idx_enabled /\ signalled_used /= None) =>
          IF InRange(UsedEventField, 2)
          THEN /\ ret'.ok
               /\ (ret'.val = 1) <=> InWindow(ReadU16(mem, UsedEventField),
                                               signalled_used[1], next_used)
          ELSE ~ret'.ok /\ ret'.err = "GuestMemory" ]_vars

(* ------------------------------------------------------------------ *)
(* Claims about set_event_idx                                          *)
(* ------------------------------------------------------------------ *)

\* C29: set_event_idx(enabled) sets event_idx_enabled to `enabled`, clears
\* signalled_used and changes nothing else; so with event-idx enabled, the first
\* needs_notification() after it returns true, whatever next_used and used_event are.
C29_SetEventIdxClears ==
    [][ /\ ret'.op = "set_event_idx"
              => /\ event_idx_enabled' = (ret'.val = 1)
                 /\ signalled_used' = << >>
                 /\ UNCHANGED << mem, cfg, next_avail, next_used >>
        /\ (ret'.op = "needs_notification" /\ event_idx_enabled /\ signalled_used = << >>)
              => (ret'.ok /\ ret'.val = 1)
      ]_vars

\* event-idx was set, an element was used, and the first call after that returned
\* true although used_event equals next_used, for which the window test asks for no
\* notification
C29_Witness ==
    /\ ret.op = "needs_notification" /\ ret.ok /\ ret.val = 1 /\ ret.arg = -1
    /\ event_idx_enabled /\ signalled_used = << next_used >>
    /\ next_used = 1 /\ nused > 0
    /\ InRange(UsedEventField, 2) /\ ReadU16(mem, UsedEventField) = next_used

(* ------------------------------------------------------------------ *)
(* Claims about the iterator beside a publishing driver                *)
(* ------------------------------------------------------------------ *)

\* C30: an iterator works on the idx the driver had published when iter() was called:
\* every ring slot it reads is at a cursor position inside the wrapped window from
\* next_avail at that time up to that idx, so entries published later are not yielded
\* by it, and it ends with next_avail at that idx, so the next iter() starts with them.
C30_IterWorksOnSnapshot ==
    [][ (iter.alive /\ ret'.op = "next") =>
          /\ (~IterAtEnd /\ ret'.err /= "panic")
                => WrapSub(next_avail, snap.start) < WrapSub(snap.published, snap.start)
          /\ (~ret'.ok /\ ret'.err = "") => next_avail' = snap.published
      ]_vars

(* ------------------------------------------------------------------ *)
(* Claims about the order of the chains yielded                        *)
(* ------------------------------------------------------------------ *)

\* sequence p is a prefix of sequence q
IsPrefix(p, q) == Len(p) <= Len(q) /\ \A i \in 1 .. Len(p) : p[i] = q[i]

\* C31: with a driver that writes the ring slot and then increments idx, never more
\* than `size` entries ahead of the device, and a device that only iterates, the head
\* indices yielded over all iterators are a prefix of those the driver published, in
\* the same order, also across the wrap of the indices from 65535 to 0.
C31_YieldedIsPrefixOfPublished == IsPrefix(heads.yielded, heads.published)

\* C32: the iterator does not validate the head index it reads from the available
\* ring: for a head >= size, next() still returns a chain (with that head) and
\* advances next_avail by one, and that chain yields no descriptor.
C32_HeadNotValidated ==
    [][ (iter.alive /\ ret'.op = "next" /\ next_avail /= iter.last_index
           /\ InRange(IterSlotAddr, 2) /\ ReadU16(mem, IterSlotAddr) >= size) =>
          /\ ret'.ok
          /\ ret'.val = ReadU16(mem, IterSlotAddr)
          /\ next_avail' = (next_avail + 1) % 65536
          /\ ChainSeq(mem', NewChain(iter.desc_table, iter.queue_size, ret'.val)) = << >>
      ]_vars

\* the driver published head = size, and the iterator returned a chain for it while
\* next_avail wrapped to 0
C32_Witness ==
    /\ iter.alive /\ ret.op = "next" /\ ret.ok /\ ret.val = size
    /\ heads.published /= << >> /\ next_avail = 0 /\ nyield > 0

(* ------------------------------------------------------------------ *)
(* Claims about errors and frame effects of the queue's operations      *)
(* ------------------------------------------------------------------ *)

\* the u16 in the used ring's idx field of guest memory m
UsedIdxIn(m) == ReadU16(m, used_ring + 2)

\* C33: an add_used that fails because the write of the used element fails changes
\* neither next_used nor the used ring's idx field. While the idx field can be
\* stored to, a successful add_used leaves it equal to next_used, and every step
\* other than a reset keeps it equal to next_used once it is: the idx field equals
\* next_used whenever an add_used has succeeded since the last reset.
C33_UsedIdxFollowsNextUsed ==
    [][ InRange(used_ring + 2, 2) =>
          /\ (ret'.op = "add_used" /\ ret'.val < size
                 /\ ~InRange(used_ring + 4 + (next_used % size) * 8, 8))
                => /\ ~ret'.ok /\ ret'.err = "GuestMemory"
                   /\ next_used' = next_used
                   /\ UsedIdxIn(mem') = UsedIdxIn(mem)
          /\ (ret'.op = "add_used" /\ ret'.ok) => UsedIdxIn(mem') = next_used'
          /\ (ret'.op /= "reset" /\ UsedIdxIn(mem) = next_used)
                => UsedIdxIn(mem') = next_used'
      ]_vars

\* after an add_used that succeeded, the write of the next used element failed (the
\* second slot of the ring is beyond guest memory): next_used and idx are both 1
C33_Witness ==
    /\ ret.op = "add_used" /\ ~ret.ok /\ ret.err = "GuestMemory" /\ ret.val < size
    /\ InRange(used_ring + 2, 2) /\ next_used = 1 /\ UsedIdxIn(mem) = 1

\* the results of next() on a chain and on a filter
NextResults == {"chain_next", "rw_next"}

\* C34: guest memory being unmodified, a chain that has returned None returns None on
\* every later call of next(), and so does a readable() or writable() filter, also
\* one that takes over a chain that has ended.
C34_NoneIsFinal ==
    [][ /\ (ret.op \in NextResults /\ ~ret.ok /\ ret'.op \in NextResults) => ~ret'.ok
        /\ (cpc = "idle" /\ cpc' = "idle" /\ mem' = mem /\ NextOf(mem, chain).item = None)
              => /\ NextOf(mem', chain').item = None
                 /\ \A w \in BOOLEAN : RwNextOf(mem', chain', w).item = None
        /\ (cpc' = "idle" /\ ret'.op \in NextResults /\ ~ret'.ok /\ ret' /= ret)
              => \A w \in BOOLEAN : RwNextOf(mem', chain', w).item = None
      ]_vars

\* a chain that yielded a descriptor and then returned None, its ttl not used up, is
\* inside a further call of next()
C34_Witness ==
    /\ ret.op = "chain_next" /\ ~ret.ok
    /\ cpc = "enter" /\ depth = 1
    /\ ctr.yielded > 0 /\ chain.ttl > 0

\* the operations that work on the queue's own fields only
FieldOps == {"reset", "set_event_idx", "set_next_avail", "go_to_previous_position", "is_valid"}

\* C35: reset(), set_event_idx(), set_next_avail(), go_to_previous_position() and
\* is_valid() write nothing to guest memory, so the used ring's flags, idx, slots and
\* avail_event keep their values across them.
C35_FieldOpsKeepGuestMemory ==
    [][ ret'.op \in FieldOps => \A a \in Mapped : ByteAt(mem', a) = ByteAt(mem, a) ]_vars

\* after reset() next_used is 0 while the idx field in guest memory still holds the
\* count of the elements used before, and used.flags the NO_NOTIFY stored before
C35_Witness ==
    /\ ret.op = "reset" /\ next_used = 0
    /\ InRange(used_ring, 4)
    /\ ReadU16(mem, used_ring + 2) = 2
    /\ ReadU16(mem, used_ring) = VIRTQ_USED_F_NO_NOTIFY

====
